---- MODULE Spec2Model ----
(***************************************************************************)
(* Agilow goal forge: the chat workspace (conversation state machine, the  *)
(* goal-materialization saga, the progress interpreter), the local reward  *)
(* ledger, the gamification service and the Proof-of-Commitment contract.  *)
(*                                                                         *)
(* The chat workspace is a React component.  A function defined during a   *)
(* render reads the state values of THAT render (its closure); a state     *)
(* setter changes the live state, which only later renders see.  Every     *)
(* delayed callback therefore carries a snapshot of the state it closed    *)
(* over, and functional updates (setX(prev => ...)) act on the live state. *)
(***************************************************************************)
EXTENDS Integers, Sequences, FiniteSets, TLC

\* ---------------------------------------------------------------- bounds
MaxMessages == 8      \* user messages submitted in one behaviour
MaxReports == 3       \* progress reports submitted to an active session
MaxPending == 2       \* handleSendMessage timers pending at the same time
MaxReloads == 1       \* OAuth redirects (page reloads) in one behaviour

\* ------------------------------------------------------ program constants
CreationXP == 100       \* ChatWorkspace.tsx:482,485
CertificateXP == 500    \* certificates service, generateBHAGCertificate
WeekXP == 100           \* ChatWorkspace.tsx:673

NoProfile == -1         \* userProfile === null

Slots == <<"what", "why", "when", "where", "who", "how">>
SlotSet == {Slots[i] : i \in 1..6}
NoAnswers == [s \in SlotSet |-> 0]

\* The plans the planning collaborator may return: the week numbers of
\* weeklyTasks, in order (generateMockGoalStructure returns weeks 1..4).
Plans == {<<1, 2, 3>>, <<2, 3, 21>>}

\* Texts the user types.  A text is described by what the handlers look for
\* in it: kind "connect" contains 'connect', kind "start" contains 'start'
\* and 'work', kind "done" contains 'completed' and 'i completed'; week > 0
\* means it contains 'week <n>'.
PlainText == [kind |-> "plain", week |-> 0]
ConnectText == [kind |-> "connect", week |-> 0]
ReportWeeks == {2, 3, 9}
ProgressTexts ==
    {[kind |-> k, week |-> w] : k \in {"start", "done"}, w \in ReportWeeks}
        \cup {[kind |-> "done", week |-> 0], PlainText}

VARIABLES
    currentStep,          \* currentSession.currentStep (live state)
    isAuthenticated,      \* component state isAuthenticated
    hasToken,             \* trello_tokens/<uid> exists
    currentQuestionIndex, \* component state
    fourWOneHAnswers,     \* component state: slot -> id of the answering message, 0 = unset
    timers,               \* pending handleSendMessage callbacks, each with its closure
    sent,                 \* user messages submitted so far
    reloads,              \* page reloads so far
    sagas,                \* runs of processComplete4W1H in this page
    boards,               \* the boards of the task-board service
    sessionBoardId,       \* currentSession.trelloBoardId, 0 = none
    userProfileXP,        \* userProfile.xp (displayed), NoProfile when userProfile is null
    xpCookie,             \* the agilow_user_xp cookie
    transactions,         \* localXPService.transactions
    certificates,         \* certificateService.certificates, in the order stored
    userDoc,              \* users/<uid>: xp, and lastXPEarned written by addUserXP
    aiLog,                \* AI messages added to the session, by kind
    lastReport,           \* history: the progress report handled last
    \* the Proof-of-Commitment contract
    tokenIdCounter,       \* _tokenIdCounter
    tokenOwner,           \* ERC721 owners: tokenOwner[t + 1] owns token t
    tokenURIs,            \* ERC721URIStorage: tokenURIs[t + 1] is the URI of token t
    goalMinted,           \* the pairs <<goalId, address>> with goalMinted[goalId][address]
    goalIds,              \* goalIds[t + 1] is the goal of token t
    lastCall,             \* history: the last contract call and whether it reverted
    \* the Firestore collections of GamificationService
    achievements,         \* achievements: the records in creation order
    xpTransactions,       \* xpTransactions: the amounts in creation order
    userStats,            \* the document userStats/<uid>
    autoStats,            \* userStats documents added by createUserStats
    calls,                \* the GamificationService calls made, with their stacks
    \* TrelloService.makeRequest
    tokenValue,           \* the token held by trello_tokens/<uid> while hasToken
    issued,               \* tokens issued by the authorization flow so far
    revoked,              \* the tokens the board service answers 401 to
    requests,             \* the makeRequest calls made, each with its position
    expiredSince,         \* history: a request failed as auth-expired and no
                          \* token has been stored since
    \* the wallet service
    wallets,              \* the WalletInfo records generateWallet returned
    recoveries,           \* the results of recoverWalletFromMnemonic, in call order
    \* goal creation
    goals,                \* the goals collection, in creation order
    nfts,                 \* the nfts collection written by the mint function
    goalCalls,            \* the createGoal calls made, each with its position
    \* user profiles
    users,                \* the users collection: the document of each uid
    profileCalls,         \* the sign-up / sign-in calls made, with what they returned
    \* the completion service
    completionCalls       \* the awardCompletionCertificate calls made, with what they returned

sessionVars == <<currentStep, isAuthenticated, currentQuestionIndex,
                 fourWOneHAnswers, timers, sent, reloads, sagas, boards,
                 sessionBoardId, userProfileXP, xpCookie, transactions,
                 certificates, aiLog, lastReport>>

pageVars == <<sessionVars, hasToken>>

chatVars == <<pageVars, userDoc>>

contractVars == <<tokenIdCounter, tokenOwner, tokenURIs, goalMinted, goalIds,
                  lastCall>>

storeVars == <<achievements, xpTransactions, userStats, autoStats, calls>>

trelloVars == <<tokenValue, issued, revoked, requests, expiredSince>>

walletVars == <<wallets, recoveries>>

goalVars == <<goals, nfts, goalCalls>>

profileVars == <<users, profileCalls>>

completionVars == <<completionCalls>>

serviceVars == <<walletVars, goalVars, profileVars, completionVars>>

vars == <<chatVars, contractVars, storeVars, trelloVars, serviceVars>>

\* ------------------------------------------------------------- helpers
Max(a, b) == IF a > b THEN a ELSE b

RECURSIVE SumAmounts(_)
SumAmounts(txs) ==
    IF txs = <<>> THEN 0 ELSE Head(txs).amount + SumAmounts(Tail(txs))

MsgKinds == {"connectPrompt", "frameworkIntro", "connectHelp", "question",
             "creating", "boardReady", "certStep", "certOk", "certWarning",
             "summary", "error", "planText", "moved", "congrats", "clarify",
             "ack"}

\* addMessage('ai', ...) through simulateAIResponse: the timer only appends
\* the message, so the append is recorded where simulateAIResponse is called.
simulateAIResponse(log, kind) == [log EXCEPT ![kind] = @ + 1]

\* --------------------------------------------------------- reward ledger
\* getXPCookie: parseInt of the cookie value, never negative.
getXPCookie(cookie) == Max(0, cookie)

\* updateXPCookie: the value written is never negative.
updateXPCookie(newXP) == Max(0, newXP)

\* setUserProfileXP(xp) of the render whose userProfile.xp is closureXP:
\* nothing happens when that userProfile is null; otherwise the displayed
\* XP and the cookie both become max(0, xp).
setUserProfileXP(closureXP, xp, profile, cookie) ==
    IF closureXP = NoProfile
    THEN [profile |-> profile, cookie |-> cookie]
    ELSE [profile |-> Max(0, xp), cookie |-> updateXPCookie(Max(0, xp))]

\* LocalXPService.awardXP: push the transaction, then cookie := cookie + amount.
LocalAwardXP(txs, cookie, amount, reason, goalId) ==
    [txs |-> Append(txs, [amount |-> amount, reason |-> reason, goalId |-> goalId]),
     cookie |-> updateXPCookie(getXPCookie(cookie) + amount)]

\* ------------------------------------------------------------ the board
ListNames == <<"To Do", "Doing", "Done", "BHAG">>
ToDo == 1
Doing == 2
Done == 3
BHAG == 4

\* card.name.toLowerCase().includes('week <k>') for a card named 'Week <n>':
\* the decimal digits of k are a prefix of the decimal digits of n.
RECURSIVE NameIncludes(_, _)
NameIncludes(n, k) ==
    IF n = k THEN TRUE
    ELSE IF n < 10 THEN FALSE
    ELSE NameIncludes(n \div 10, k)

\* A card: week > 0 for a card named 'Week <week>', week = 0 for the vision
\* card; idList is the list it is in; a card keeps its position when it is
\* moved, so within a list cards are in creation order.
WeekCard(w) == [week |-> w, idList |-> ToDo, image |-> "none"]
VisionCard(img) == [week |-> 0, idList |-> BHAG, image |-> img]

\* createGoalBoard, all requests answered: four lists, one card per week in To Do.
NewBoard(plan) ==
    [lists |-> 4, cards |-> [i \in 1..Len(plan) |-> WeekCard(plan[i])]]

\* createGoalBoard interrupted after the lists and the first n cards.
PartialBoard(plan, n) ==
    [lists |-> 4, cards |-> [i \in 1..n |-> WeekCard(plan[i])]]

\* generateBHAGCertificate: the record it stores; a plan stands for its
\* goalStructure, title included.
Certificate(goalTitle) ==
    [type |-> "bhag_completion", goalTitle |-> goalTitle,
     xpAwarded |-> CertificateXP]

\* findCardByName(boardId, 'Week <k>'): lists in board order, cards in list
\* order, the first card whose name includes the searched name; 0 = null.
CardsMatching(board, l, k) ==
    {i \in 1..Len(board.cards) :
        /\ board.cards[i].idList = l
        /\ board.cards[i].week > 0
        /\ NameIncludes(board.cards[i].week, k)}

Min(S) == CHOOSE m \in S : \A n \in S : m <= n

\* findCardByName taking the last matching card instead of the first.
\* A lookup that falls back to the first card of the board.
findCardByNameOrFirst(board, k) ==
    LET hits == {l \in 1..board.lists : CardsMatching(board, l, k) # {}}
    IN  IF hits = {} THEN (IF board.cards = <<>> THEN 0 ELSE 1)
        ELSE Min(CardsMatching(board, Min(hits), k))

findCardByNameLast(board, k) ==
    LET hits == {l \in 1..board.lists : CardsMatching(board, l, k) # {}}
        last(S) == CHOOSE m \in S : \A n \in S : m >= n
    IN  IF hits = {} THEN 0 ELSE last(CardsMatching(board, Min(hits), k))

findCardByName(board, k) ==
    LET hits == {l \in 1..board.lists : CardsMatching(board, l, k) # {}}
    IN  IF hits = {} THEN 0 ELSE Min(CardsMatching(board, Min(hits), k))

moveCardToList(board, c, l) == [board EXCEPT !.cards[c].idList = l]

\* ------------------------------------------------------- initial state
NoReport == [n |-> 0, text |-> PlainText, ok |-> FALSE]

\* The balance the owner arrives with: nothing, or one earlier grant that
\* the ledger, the cookie and the profile all record.
PriorGrants == {<<>>, <<[amount |-> CertificateXP, reason |-> "BHAG Completion", goalId |-> 0]>>}

\* The contract as deployed: no token.
NoCall == [fn |-> "none", caller |-> "", to |-> "", tokenId |-> 0, goalId |-> "",
           uri |-> "", reverted |-> FALSE]

InitContract ==
    /\ tokenIdCounter = 0
    /\ tokenOwner = <<>>
    /\ tokenURIs = <<>>
    /\ goalMinted = {}
    /\ goalIds = <<>>
    /\ lastCall = NoCall

\* The collections of a new account. No code of the repository creates the
\* document userStats/<uid> (createUserStats adds a document with a generated
\* id): it is there only when it was provisioned from outside.
InitStore(provisioned) ==
    /\ achievements = <<>>
    /\ xpTransactions = <<>>
    /\ userStats = [exists |-> provisioned, totalXP |-> 0, level |-> 1,
                    achievementsUnlocked |-> 0, goalsCompleted |-> 0]
    /\ autoStats = 0
    /\ calls = <<>>

\* No request has been made; the stored token, when there is one, is the
\* first token issued.
InitTrello ==
    /\ tokenValue = 1
    /\ issued = 1
    /\ revoked = {}
    /\ requests = <<>>
    /\ expiredSince = FALSE

\* No wallet has been generated or recovered.
InitWallet ==
    /\ wallets = <<>>
    /\ recoveries = <<>>

\* No goal has been created.
InitGoals ==
    /\ goals = <<>>
    /\ nfts = <<>>
    /\ goalCalls = <<>>

Uids == {"u1", "u2"}
NoDoc == [exists |-> FALSE]

\* No profile has been created.
InitProfiles ==
    /\ users = [u \in Uids |-> NoDoc]
    /\ profileCalls = <<>>

\* No completion has been asked for.
InitCompletions == completionCalls = <<>>

InitServices == InitWallet /\ InitGoals /\ InitProfiles /\ InitCompletions

InitSession ==
    /\ currentStep = "welcome"
    /\ isAuthenticated = FALSE
    /\ hasToken \in BOOLEAN
    /\ currentQuestionIndex = 0
    /\ fourWOneHAnswers = NoAnswers
    /\ timers = <<>>
    /\ sent = 0
    /\ reloads = 0
    /\ sagas = <<>>
    /\ boards = <<>>
    /\ sessionBoardId = 0
    /\ transactions \in PriorGrants
    /\ xpCookie = SumAmounts(transactions)
    /\ userProfileXP \in {SumAmounts(transactions)} \cup
                         (IF transactions = <<>> THEN {NoProfile} ELSE {})
    /\ certificates = <<>>
    /\ userDoc = [xp |-> SumAmounts(transactions), lastXPEarned |-> 0, lastXPDate |-> 0]
    /\ aiLog = [k \in MsgKinds |-> 0]
    /\ lastReport = NoReport

Init == InitSession /\ InitContract /\ InitStore(FALSE) /\ InitTrello /\ InitServices

\* ------------------------------------------------ conversation: sending
\* The texts worth distinguishing in a step: only the trello-connect and
\* active handlers look at the text.
TextsFor(step) ==
    IF step = "active" THEN ProgressTexts
    ELSE IF step = "trello-connect" THEN {PlainText, ConnectText}
    ELSE {PlainText}

\* handleSendMessage: the user message is added and the response is
\* scheduled; the scheduled callback keeps the state of the current render.
SendMessageFrom(limit, texts) ==
    /\ sent < limit
    /\ Len(timers) < MaxPending
    /\ \E t \in texts :
         timers' = Append(timers,
                     [step |-> currentStep, qIndex |-> currentQuestionIndex,
                      answers |-> fourWOneHAnswers, xp |-> userProfileXP,
                      auth |-> isAuthenticated, boardId |-> sessionBoardId,
                      msg |-> sent + 1, text |-> t])
    /\ sent' = sent + 1
    /\ UNCHANGED <<contractVars, storeVars, trelloVars, serviceVars>>
    /\ UNCHANGED <<currentStep, isAuthenticated, hasToken, currentQuestionIndex,
                   fourWOneHAnswers, reloads, sagas, boards, sessionBoardId,
                   userProfileXP, xpCookie, transactions, certificates,
                   userDoc, aiLog, lastReport>>

SendMessage(limit) == SendMessageFrom(limit, TextsFor(currentStep))

handleSendMessage == SendMessage(MaxMessages)

\* The effect on [isAuthenticated, currentSession]: a session in
\* trello-connect whose board adapter is linked moves to 4w1h.
ConnectEffectFires(step, auth) == step = "trello-connect" /\ auth

\* getIsAuthenticated().then(setIsAuthenticated), followed by the effect.
refreshAuth ==
    /\ isAuthenticated # hasToken
    /\ isAuthenticated' = hasToken
    /\ IF ConnectEffectFires(currentStep, hasToken)
       THEN /\ currentStep' = "4w1h"
            /\ currentQuestionIndex' = 0
            /\ fourWOneHAnswers' = NoAnswers
            /\ aiLog' = simulateAIResponse(aiLog, "frameworkIntro")
       ELSE UNCHANGED <<currentStep, currentQuestionIndex, fourWOneHAnswers, aiLog>>
    /\ UNCHANGED <<contractVars, storeVars, trelloVars, serviceVars>>
    /\ UNCHANGED <<hasToken, timers, sent, reloads, sagas, boards,
                   sessionBoardId, userProfileXP, xpCookie, transactions,
                   certificates, userDoc, lastReport>>

\* handleWelcomeResponse, branch currentStep === 'welcome' of the closure.
handleWelcomeResponse ==
    /\ timers # <<>>
    /\ Head(timers).step = "welcome"
    /\ timers' = Tail(timers)
    /\ IF ~Head(timers).auth
       THEN IF ConnectEffectFires("trello-connect", isAuthenticated)
            THEN /\ currentStep' = "4w1h"
                 /\ currentQuestionIndex' = 0
                 /\ fourWOneHAnswers' = NoAnswers
                 /\ aiLog' = simulateAIResponse(
                                simulateAIResponse(aiLog, "connectPrompt"),
                                "frameworkIntro")
            ELSE /\ currentStep' = "trello-connect"
                 /\ aiLog' = simulateAIResponse(aiLog, "connectPrompt")
                 /\ UNCHANGED <<currentQuestionIndex, fourWOneHAnswers>>
       ELSE /\ currentStep' = "4w1h"
            /\ currentQuestionIndex' = 0
            /\ fourWOneHAnswers' = NoAnswers
            /\ aiLog' = simulateAIResponse(aiLog, "frameworkIntro")
    /\ UNCHANGED <<contractVars, storeVars, trelloVars, serviceVars>>
    /\ UNCHANGED <<isAuthenticated, hasToken, sent, reloads, sagas, boards,
                   sessionBoardId, userProfileXP, xpCookie, transactions,
                   certificates, userDoc, lastReport>>

\* What a fresh page load shows for the XP: the AuthProvider loads the
\* stored profile and restores the cookie when the cookie is higher.
ReloadedProfile(storedXP, cookie) ==
    IF getXPCookie(cookie) > storedXP THEN getXPCookie(cookie) ELSE storedXP

\* The cookie after that load: it is refreshed from the stored XP when the
\* cookie is not higher and the stored XP is not 0; nothing is written to
\* the stored profile in either case.
ReloadedCookie(storedXP, cookie) ==
    IF getXPCookie(cookie) > storedXP THEN cookie
    ELSE IF storedXP # 0 THEN updateXPCookie(storedXP) ELSE cookie

\* handleWelcomeResponse, branch 'trello-connect': authenticate() leaves the
\* page for the authorization flow; the page that comes back is mounted
\* anew (new session, no timers, no running saga), with the token stored
\* when the owner granted access.  Any other text gets the explanation.
handleTrelloConnect ==
    /\ timers # <<>>
    /\ Head(timers).step = "trello-connect"
    /\ IF Head(timers).text.kind = "connect"
       THEN /\ reloads < MaxReloads
            /\ reloads' = reloads + 1
            /\ hasToken' \in {TRUE, hasToken}
            /\ timers' = <<>>
            /\ sagas' = <<>>
            /\ currentStep' = "welcome"
            /\ isAuthenticated' = FALSE
            /\ currentQuestionIndex' = 0
            /\ fourWOneHAnswers' = NoAnswers
            /\ sessionBoardId' = 0
            /\ aiLog' = [k \in MsgKinds |-> 0]
            /\ userProfileXP' = ReloadedProfile(userDoc.xp, xpCookie)
            /\ xpCookie' = ReloadedCookie(userDoc.xp, xpCookie)
       ELSE /\ timers' = Tail(timers)
            /\ aiLog' = simulateAIResponse(aiLog, "connectHelp")
            /\ UNCHANGED <<reloads, hasToken, sagas, currentStep, isAuthenticated,
                           currentQuestionIndex, fourWOneHAnswers, sessionBoardId,
                           userProfileXP, xpCookie>>
    /\ UNCHANGED <<contractVars, storeVars, trelloVars, serviceVars>>
    /\ UNCHANGED <<sent, boards, transactions, certificates,
                   userDoc, lastReport>>

\* ---------------------------------------------------- the six answers
\* processComplete4W1H is entered with the closure of the handler that
\* calls it: fourWOneHAnswers and userProfile are the values of the render
\* in which the message was sent.  The plan-generation call is issued at once.
\* The steps the closing message of the saga lists with a check mark: its
\* text is fixed.
SummaryListed == {"plan", "board", "image", "xp", "cert", "finalize"}

NewSaga(t) ==
    [pc |-> "plan", answers |-> t.answers, xp |-> t.xp, plan |-> <<>>,
     boardId |-> 0, imageOk |-> FALSE, image |-> "none", ran |-> {},
     persisted |-> FALSE, certOk |-> FALSE, summary |-> {}, msg |-> t.msg,
     failedAt |-> 0]

\* handle4W1HResponse: the branch is chosen by the closure's
\* currentQuestionIndex; the answer is stored by a functional update.
handle4W1HResponse ==
    /\ timers # <<>>
    /\ Head(timers).step = "4w1h"
    /\ timers' = Tail(timers)
    /\ LET t == Head(timers) IN
         IF t.qIndex \in 0..4
         THEN /\ fourWOneHAnswers' = [fourWOneHAnswers EXCEPT ![Slots[t.qIndex + 1]] = t.msg]
              /\ currentQuestionIndex' = t.qIndex + 1
              /\ aiLog' = simulateAIResponse(aiLog, "question")
              /\ UNCHANGED <<currentStep, sagas>>
         ELSE IF t.qIndex = 5
         THEN /\ fourWOneHAnswers' = [fourWOneHAnswers EXCEPT !["how"] = t.msg]
              /\ currentQuestionIndex' = 6
              /\ aiLog' = simulateAIResponse(aiLog, "creating")
              /\ currentStep' = "goal-creation"
              /\ sagas' = Append(sagas, NewSaga(t))
         ELSE UNCHANGED <<fourWOneHAnswers, currentQuestionIndex, aiLog,
                          currentStep, sagas>>
    /\ UNCHANGED <<contractVars, storeVars, trelloVars, serviceVars>>
    /\ UNCHANGED <<isAuthenticated, hasToken, sent, reloads, boards,
                   sessionBoardId, userProfileXP, xpCookie, transactions,
                   certificates, userDoc, lastReport>>

\* handleGoalCreationResponse: a fixed reply, nothing else.
handleGoalCreationResponse ==
    /\ timers # <<>>
    /\ Head(timers).step = "goal-creation"
    /\ timers' = Tail(timers)
    /\ aiLog' = simulateAIResponse(aiLog, "boardReady")
    /\ UNCHANGED <<contractVars, storeVars, trelloVars, serviceVars>>
    /\ UNCHANGED <<currentStep, isAuthenticated, hasToken, currentQuestionIndex,
                   fourWOneHAnswers, sent, reloads, sagas, boards,
                   sessionBoardId, userProfileXP, xpCookie, transactions,
                   certificates, userDoc, lastReport>>

\* ------------------------------------------- goal-materialization saga
\* Each action below is the part of processComplete4W1H that runs when the
\* awaited call of run i returns, up to the next awaited call.

\* The catch block: one error message, nothing undone, the step unchanged
\* (failedAt notes how many messages had been sent by then).
SagaCatch(i, step) ==
    /\ sagas' = [sagas EXCEPT ![i].pc = "failed", ![i].ran = @ \cup {step},
                              ![i].failedAt = sent]
    /\ aiLog' = simulateAIResponse(aiLog, "error")

\* Step 1: process4W1HAnswers returns a goal structure (it falls back to the
\* mock structure instead of throwing); createGoalBoard is called.
SagaPlan(i) ==
    /\ sagas[i].pc = "plan"
    /\ \E plan \in Plans :
         sagas' = [sagas EXCEPT ![i].pc = "board", ![i].plan = plan,
                                ![i].ran = @ \cup {"plan"}]
    /\ UNCHANGED <<contractVars, storeVars, trelloVars, serviceVars>>
    /\ UNCHANGED <<currentStep, isAuthenticated, hasToken, currentQuestionIndex,
                   fourWOneHAnswers, timers, sent, reloads, boards,
                   sessionBoardId, userProfileXP, xpCookie, transactions,
                   certificates, userDoc, aiLog, lastReport>>

\* Step 2: createGoalBoard returns or throws.  It throws at once without a
\* token; a request may fail before anything is created or after the board,
\* its lists and some of its cards exist.  generateGoalImage is called next.
SagaBoard(i) ==
    /\ sagas[i].pc = "board"
    /\ \/ /\ hasToken
          /\ boards' = Append(boards, NewBoard(sagas[i].plan))
          /\ sagas' = [sagas EXCEPT ![i].pc = "image",
                                    ![i].boardId = Len(boards) + 1,
                                    ![i].ran = @ \cup {"board"}]
          /\ UNCHANGED aiLog
       \/ /\ UNCHANGED boards
          /\ SagaCatch(i, "board")
       \/ /\ hasToken
          /\ \E n \in 0..(Len(sagas[i].plan) - 1) :
               boards' = Append(boards, PartialBoard(sagas[i].plan, n))
          /\ SagaCatch(i, "board")
    /\ UNCHANGED <<contractVars, storeVars, trelloVars, serviceVars>>
    /\ UNCHANGED <<currentStep, isAuthenticated, hasToken, currentQuestionIndex,
                   fourWOneHAnswers, timers, sent, reloads,
                   sessionBoardId, userProfileXP, xpCookie, transactions,
                   certificates, userDoc, lastReport>>

\* generateGoalImage without its fallback to the placeholder image.
generateGoalImageNoFallback(generationOk) ==
    IF generationOk THEN "generated" ELSE "none"

generateGoalImage(generationOk) ==
    IF generationOk THEN "generated" ELSE "placeholder"

\* Step 3: generateGoalImage returns the generated image, or the placeholder
\* when the generation failed or no key is configured; it never throws.
\* addImageToBHAG is called next.
SagaImage(i) ==
    /\ sagas[i].pc = "image"
    /\ \E generationOk \in BOOLEAN :
         sagas' = [sagas EXCEPT ![i].pc = "attach",
                                ![i].imageOk = generationOk,
                                ![i].image = generateGoalImage(generationOk),
                                ![i].ran = @ \cup {"image"}]
    /\ UNCHANGED <<contractVars, storeVars, trelloVars, serviceVars>>
    /\ UNCHANGED <<currentStep, isAuthenticated, hasToken, currentQuestionIndex,
                   fourWOneHAnswers, timers, sent, reloads, boards,
                   sessionBoardId, userProfileXP, xpCookie, transactions,
                   certificates, userDoc, aiLog, lastReport>>

\* addImageToBHAG: a card with the image on the BHAG list.
addImageToBHAG(board, img) ==
    [board EXCEPT !.cards = Append(@, VisionCard(img))]

\* Step 5, the creation reward: the displayed XP is raised from the
\* closure's userProfile.xp, then LocalXPService.awardXP runs; when it
\* throws, the catch block sets the displayed XP to the closure's XP - 100.
CreationReward(s, persistOk) ==
    LET currentXP == IF s.xp = NoProfile THEN 0 ELSE s.xp
        optimistic == setUserProfileXP(s.xp, currentXP + CreationXP,
                                       userProfileXP, xpCookie)
        awarded == LocalAwardXP(transactions, optimistic.cookie, CreationXP,
                                "BHAG created", s.boardId)
        reverted == setUserProfileXP(s.xp, currentXP - CreationXP,
                                     optimistic.profile, optimistic.cookie)
    IN  IF persistOk
        THEN [profile |-> optimistic.profile, cookie |-> awarded.cookie,
              txs |-> awarded.txs]
        ELSE [profile |-> reverted.profile, cookie |-> reverted.cookie,
              txs |-> transactions]

\* Step 4 returns or throws.  When it returns, steps 5 and 6 run without
\* waiting for anything: the reward, then the session becomes active with
\* the board and the closure's answers; the certificate is requested.
SagaAttach(i) ==
    /\ sagas[i].pc = "attach"
    /\ \/ /\ hasToken
          /\ \E persistOk \in BOOLEAN :
               LET r == CreationReward(sagas[i], persistOk) IN
                 /\ userProfileXP' = r.profile
                 /\ xpCookie' = r.cookie
                 /\ transactions' = r.txs
                 /\ sagas' = [sagas EXCEPT ![i].pc = "cert",
                                           ![i].persisted = persistOk,
                                           ![i].ran = @ \cup {"attach", "xp", "finalize"}]
          /\ boards' = [boards EXCEPT ![sagas[i].boardId] =
                                        addImageToBHAG(@, sagas[i].image)]
          /\ currentStep' = "active"
          /\ sessionBoardId' = sagas[i].boardId
          /\ aiLog' = simulateAIResponse(aiLog, "certStep")
       \/ /\ SagaCatch(i, "attach")
          /\ \/ UNCHANGED boards
             \/ /\ hasToken
                /\ boards' = [boards EXCEPT ![sagas[i].boardId] =
                                              addImageToBHAG(@, "none")]
          /\ UNCHANGED <<currentStep, sessionBoardId, userProfileXP,
                         xpCookie, transactions>>
    /\ UNCHANGED <<contractVars, storeVars, trelloVars, serviceVars>>
    /\ UNCHANGED <<isAuthenticated, hasToken, currentQuestionIndex,
                   fourWOneHAnswers, timers, sent, reloads,
                   certificates, userDoc, lastReport>>

\* Step 7: generateBHAGCertificate stores the certificate and awards the
\* bonus; when the award throws, the certificate stays and a warning is
\* shown.  The summary message follows in both cases.
SagaCert(i) ==
    /\ sagas[i].pc = "cert"
    /\ certificates' = Append(certificates, Certificate(sagas[i].plan))
    /\ \E persistOk \in BOOLEAN :
         IF persistOk
         THEN LET a == LocalAwardXP(transactions, xpCookie, CertificateXP,
                                    "BHAG Completion", 0) IN
                /\ transactions' = a.txs
                /\ xpCookie' = a.cookie
                /\ aiLog' = simulateAIResponse(
                               simulateAIResponse(aiLog, "certOk"), "summary")
         ELSE /\ UNCHANGED <<transactions, xpCookie>>
              /\ aiLog' = simulateAIResponse(
                             simulateAIResponse(aiLog, "certWarning"), "summary")
    /\ \E certOk \in BOOLEAN :
         /\ (certOk <=> aiLog'["certOk"] > aiLog["certOk"])
         /\ sagas' = [sagas EXCEPT ![i].pc = "done", ![i].ran = @ \cup {"cert"},
                                   ![i].certOk = certOk,
                                   ![i].summary = SummaryListed]
    /\ UNCHANGED <<contractVars, storeVars, trelloVars, serviceVars>>
    /\ UNCHANGED <<currentStep, isAuthenticated, hasToken, currentQuestionIndex,
                   fourWOneHAnswers, timers, sent, reloads, boards,
                   sessionBoardId, userProfileXP, userDoc, lastReport>>

\* -------------------------------------------------- progress interpreter
\* lowerMessage.includes(...) for the texts of the model.
IsStartReport(text) == text.kind = "start" /\ text.week > 0
IsDoneReport(text) == text.kind = "done" /\ text.week > 0
IsGeneralCompletion(text) == text.kind = "done"

\* lists.find(...) by name: the first list whose name contains the word.
toDoList(board) == IF board.lists >= ToDo THEN ToDo ELSE 0
doingList(board) == IF board.lists >= Doing THEN Doing ELSE 0
doneList(board) == IF board.lists >= Done THEN Done ELSE 0

\* ChatHistoryService.addUserXP: notes the last grant and its time on the
\* user document (the number of the report stands for the server time);
\* a failed write is swallowed.
addUserXP(doc, amount, now, writeOk) ==
    IF writeOk THEN [doc EXCEPT !.lastXPEarned = amount, !.lastXPDate = now]
    ELSE doc

\* handleActiveConversation: handleProgressUpdate on the closure's board,
\* then the reply of processProgressUpdate.  A failing board request inside
\* handleProgressUpdate is logged and nothing else happens.
handleActiveConversation ==
    /\ timers # <<>>
    /\ Head(timers).step = "active"
    /\ timers' = Tail(timers)
    /\ LET t == Head(timers)
           b == IF t.boardId = 0 THEN [lists |-> 0, cards |-> <<>>] ELSE boards[t.boardId]
           card == IF t.text.week > 0 THEN findCardByName(b, t.text.week) ELSE 0
       IN
       \E trelloOk \in BOOLEAN : \E writeOk \in BOOLEAN :
         /\ lastReport' = [n |-> t.msg, text |-> t.text,
                           ok |-> trelloOk /\ hasToken /\ t.boardId # 0]
         /\ IF t.boardId = 0 \/ ~trelloOk \/ ~hasToken
            THEN /\ aiLog' = simulateAIResponse(aiLog, "ack")
                 /\ UNCHANGED <<boards, userDoc>>
            ELSE IF IsStartReport(t.text) /\ card # 0
                    /\ toDoList(b) # 0 /\ doingList(b) # 0
            THEN /\ boards' = [boards EXCEPT ![t.boardId] =
                                  moveCardToList(@, card, doingList(b))]
                 /\ aiLog' = simulateAIResponse(
                                simulateAIResponse(aiLog, "moved"), "ack")
                 /\ UNCHANGED userDoc
            ELSE IF IsDoneReport(t.text) /\ card # 0
                    /\ doingList(b) # 0 /\ doneList(b) # 0
            THEN /\ boards' = [boards EXCEPT ![t.boardId] =
                                  moveCardToList(@, card, doneList(b))]
                 /\ userDoc' = addUserXP(userDoc, WeekXP, t.msg, writeOk)
                 /\ aiLog' = simulateAIResponse(
                                simulateAIResponse(aiLog, "congrats"), "ack")
            ELSE IF IsGeneralCompletion(t.text)
                    /\ doingList(b) # 0 /\ doneList(b) # 0
            THEN /\ aiLog' = simulateAIResponse(
                                simulateAIResponse(aiLog, "clarify"), "ack")
                 /\ UNCHANGED <<boards, userDoc>>
            ELSE /\ aiLog' = simulateAIResponse(aiLog, "ack")
                 /\ UNCHANGED <<boards, userDoc>>
    /\ UNCHANGED <<contractVars, storeVars, trelloVars, serviceVars>>
    /\ UNCHANGED <<currentStep, isAuthenticated, hasToken, currentQuestionIndex,
                   fourWOneHAnswers, sent, reloads, sagas, sessionBoardId,
                   userProfileXP, xpCookie, transactions, certificates>>

\* ------------------------------------------------------- specification
Next ==
    \/ handleSendMessage
    \/ refreshAuth
    \/ handleWelcomeResponse
    \/ handleTrelloConnect
    \/ handle4W1HResponse
    \/ handleGoalCreationResponse
    \/ handleActiveConversation
    \/ \E i \in 1..Len(sagas) : SagaPlan(i)
    \/ \E i \in 1..Len(sagas) : SagaBoard(i)
    \/ \E i \in 1..Len(sagas) : SagaImage(i)
    \/ \E i \in 1..Len(sagas) : SagaAttach(i)
    \/ \E i \in 1..Len(sagas) : SagaCert(i)

Spec == Init /\ [][Next]_vars

\* ------------------------------------- an active session and its reports
\* The state in which a conversation that ran without failures leaves the
\* page: seven messages sent, the saga done, the board provisioned.
SagaMessages == 7

DoneSaga(plan) ==
    [pc |-> "done", answers |-> [NoAnswers EXCEPT !["what"] = 2, !["why"] = 3,
                                  !["when"] = 4, !["where"] = 5, !["who"] = 6],
     xp |-> 0, plan |-> plan, boardId |-> 1, imageOk |-> TRUE,
     image |-> "generated",
     ran |-> {"plan", "board", "image", "attach", "xp", "finalize", "cert"},
     persisted |-> TRUE, certOk |-> TRUE, summary |-> SummaryListed, msg |-> 7,
     failedAt |-> 0]

ActiveLog ==
    [k \in MsgKinds |->
        IF k = "question" THEN 5
        ELSE IF k \in {"frameworkIntro", "creating", "certStep", "certOk", "summary"}
        THEN 1 ELSE 0]

ActiveSession(plan) ==
    /\ InitContract
    /\ InitStore(FALSE)
    /\ InitTrello /\ InitServices
    /\ currentStep = "active"
    /\ isAuthenticated = TRUE
    /\ hasToken = TRUE
    /\ currentQuestionIndex = 6
    /\ fourWOneHAnswers = [NoAnswers EXCEPT !["what"] = 2, !["why"] = 3,
                             !["when"] = 4, !["where"] = 5, !["who"] = 6,
                             !["how"] = 7]
    /\ timers = <<>>
    /\ sent = SagaMessages
    /\ reloads = 0
    /\ sagas = <<DoneSaga(plan)>>
    /\ boards = <<addImageToBHAG(NewBoard(plan), "generated")>>
    /\ sessionBoardId = 1
    /\ userProfileXP = CreationXP
    /\ xpCookie = CreationXP + CreationXP + CertificateXP
    /\ transactions =
         <<[amount |-> CreationXP, reason |-> "BHAG created", goalId |-> 1],
           [amount |-> CertificateXP, reason |-> "BHAG Completion", goalId |-> 0]>>
    /\ certificates = <<Certificate(plan)>>
    /\ userDoc = [xp |-> 0, lastXPEarned |-> 0, lastXPDate |-> 0]
    /\ aiLog = ActiveLog
    /\ lastReport = NoReport

InitProgress == \E plan \in Plans : ActiveSession(plan)

handleSendReport == SendMessage(SagaMessages + MaxReports)

NextProgress ==
    \/ handleSendReport
    \/ handleActiveConversation

SpecProgress == InitProgress /\ [][NextProgress]_vars

\* InitProgress is a state of Spec: the negation is violated there.
InitProgressUnreachable == ~InitProgress

\* ------------------------------------------- the completion certificate
\* BHAGCompletionService over the board and the certificates of an active
\* session whose plan has four weeks.
MaxAwards == 2             \* awardCompletionCertificate calls
MaxCompletionReports == 4  \* progress reports before and between them
CompletionThreshold == 80

LongPlan == <<2, 3, 9, 21>>

\* getBoardLists: GET /boards/<id>/lists asking for the fields id, name and
\* closed; whether the lists of the answer carry their cards is the
\* task-board service's.
getBoardLists(board, withCards) ==
    [l \in 1..board.lists |->
        IF withCards
        THEN [id |-> l, name |-> ListNames[l], closed |-> FALSE,
              cards |-> {c \in 1..Len(board.cards) : board.cards[c].idList = l}]
        ELSE [id |-> l, name |-> ListNames[l], closed |-> FALSE]]

\* name.toLowerCase() includes 'done', 'completed' or 'finished'.
IsDoneName(name) == name = "Done"

\* checkBHAGCompletion: cards of all lists against the cards of the lists
\* named done; lists without cards are skipped; a failed request counts
\* as nothing completed.
checkBHAGCompletion(lists, trelloOk) ==
    LET n == IF trelloOk THEN Len(lists) ELSE 0
        cardsOf(l) == IF "cards" \in DOMAIN lists[l]
                      THEN Cardinality(lists[l].cards) ELSE 0
        total[k \in 0..n] == IF k = 0 THEN 0 ELSE total[k - 1] + cardsOf(k)
        completed[k \in 0..n] ==
            IF k = 0 THEN 0
            ELSE completed[k - 1]
                 + (IF IsDoneName(lists[k].name) THEN cardsOf(k) ELSE 0)
    IN  [totalCards |-> total[n], completedCards |-> completed[n],
         isCompleted |-> /\ total[n] > 0
                         /\ completed[n] * 100 >= CompletionThreshold * total[n]]

\* The share of the cards of the board that are on its Done list.
AtThreshold(board) ==
    LET done == {c \in 1..Len(board.cards) : board.cards[c].idList = Done}
    IN  /\ board.cards # <<>>
        /\ Cardinality(done) * 100 >= CompletionThreshold * Len(board.cards)

\* awardCompletionCertificate(userId, boardId, goalTitle) for the goal of a
\* finished saga: true after generateBHAGCertificate ran to its end, false
\* when the goal is not completed, when a 'bhag_completion' certificate of
\* that title exists, and when anything throws.
awardCompletionCertificate ==
    /\ Len(completionCalls) < MaxAwards
    /\ \E i \in 1..Len(sagas) :
       \E trelloOk \in BOOLEAN : \E withCards \in BOOLEAN :
       \E persistOk \in BOOLEAN :
         /\ sagas[i].pc = "done"
         /\ sagas[i].boardId # 0
         /\ LET board == boards[sagas[i].boardId]
                goalTitle == sagas[i].plan
                progress == checkBHAGCompletion(
                               getBoardLists(board, withCards),
                               trelloOk /\ hasToken)
                alreadyAwarded ==
                    \E c \in 1..Len(certificates) :
                       /\ certificates[c].type = "bhag_completion"
                       /\ certificates[c].goalTitle = goalTitle
                generate == progress.isCompleted /\ ~alreadyAwarded
                a == LocalAwardXP(transactions, xpCookie, CertificateXP,
                                  "BHAG Completion", 0)
            IN
            /\ certificates' = IF generate
                               THEN Append(certificates, Certificate(goalTitle))
                               ELSE certificates
            /\ IF generate /\ persistOk
               THEN transactions' = a.txs /\ xpCookie' = a.cookie
               ELSE UNCHANGED <<transactions, xpCookie>>
            /\ completionCalls' = Append(completionCalls,
                   [goalTitle |-> goalTitle,
                    atThreshold |-> AtThreshold(board),
                    answered |-> trelloOk /\ hasToken /\ persistOk,
                    withCards |-> withCards,
                    issued |-> Len(certificates') - Len(certificates),
                    returned |-> generate /\ persistOk])
    /\ UNCHANGED <<contractVars, storeVars, trelloVars, walletVars, goalVars,
                   profileVars>>
    /\ UNCHANGED <<currentStep, isAuthenticated, hasToken, currentQuestionIndex,
                   fourWOneHAnswers, timers, sent, reloads, sagas, boards,
                   sessionBoardId, userProfileXP, userDoc, aiLog, lastReport>>

InitCompletion == ActiveSession(LongPlan)

\* The reports sent here are the 'completed week <k>' ones.
DoneReports == {t \in TextsFor("active") : IsDoneReport(t)}

handleSendCompletionReport ==
    SendMessageFrom(SagaMessages + MaxCompletionReports, DoneReports)

NextCompletion ==
    \/ handleSendCompletionReport
    \/ handleActiveConversation
    \/ awardCompletionCertificate

SpecCompletion == InitCompletion /\ [][NextCompletion]_vars

\* ------------------------------------------ the Proof-of-Commitment contract
\* ProofOfCommitmentNFT: a call either runs to its end or reverts, and a
\* reverted call leaves the storage of the contract as it was.
MaxTokens == 3

ContractOwner == "0xOwner"
ZeroAddress == "0x0"
NonReceiver == "0xContract"   \* a contract without onERC721Received
Addresses == {ZeroAddress, "0xA", "0xB", NonReceiver}
Callers == {ContractOwner, "0xA"}
GoalIdSet == {"goal1", "goal2"}
TokenURISet == {"uri1", "uri2"}

Call(fn, caller, to, tokenId, goalId, uri, reverted) ==
    [fn |-> fn, caller |-> caller, to |-> to, tokenId |-> tokenId,
     goalId |-> goalId, uri |-> uri, reverted |-> reverted]

Reverted(call) ==
    /\ lastCall' = call
    /\ UNCHANGED <<tokenIdCounter, tokenOwner, tokenURIs, goalMinted, goalIds>>

\* _beforeTokenTransfer: only a transfer from the zero address (a mint) passes.
beforeTokenTransferAllows(from) == from = ZeroAddress

\* ERC721._safeMint: the zero address and a contract that does not accept
\* tokens make the mint revert; the token comes from the zero address.
safeMintAccepts(to) ==
    to /= ZeroAddress /\ to /= NonReceiver /\ beforeTokenTransferAllows(ZeroAddress)

\* mint without the "Already minted for this goal" requirement.
mintUnguarded(caller, to, goalId, tokenURI) ==
    /\ tokenIdCounter < MaxTokens
    /\ IF caller /= ContractOwner \/ ~safeMintAccepts(to)
       THEN Reverted(Call("mint", caller, to, tokenIdCounter, goalId, tokenURI, TRUE))
       ELSE /\ tokenIdCounter' = tokenIdCounter + 1
            /\ tokenOwner' = Append(tokenOwner, to)
            /\ tokenURIs' = Append(tokenURIs, tokenURI)
            /\ goalMinted' = goalMinted \cup {<<goalId, to>>}
            /\ goalIds' = Append(goalIds, goalId)
            /\ lastCall' = Call("mint", caller, to, tokenIdCounter, goalId, tokenURI, FALSE)
    /\ UNCHANGED <<chatVars, storeVars, trelloVars, serviceVars>>

mint(caller, to, goalId, tokenURI) ==
    /\ tokenIdCounter < MaxTokens
    /\ IF \/ caller /= ContractOwner             \* onlyOwner
          \/ <<goalId, to>> \in goalMinted       \* require(!goalMinted[goalId][to])
          \/ ~safeMintAccepts(to)                \* _safeMint
       THEN Reverted(Call("mint", caller, to, tokenIdCounter, goalId, tokenURI, TRUE))
       ELSE /\ tokenIdCounter' = tokenIdCounter + 1
            /\ tokenOwner' = Append(tokenOwner, to)
            /\ tokenURIs' = Append(tokenURIs, tokenURI)
            /\ goalMinted' = goalMinted \cup {<<goalId, to>>}
            /\ goalIds' = Append(goalIds, goalId)
            /\ lastCall' = Call("mint", caller, to, tokenIdCounter, goalId, tokenURI, FALSE)
    /\ UNCHANGED <<chatVars, storeVars, trelloVars, serviceVars>>

\* The token ids a caller may name: the minted ones and the next one.
TokenIds == 0..(MaxTokens - 1)

\* ERC721.transferFrom as the base contract has it: the owner of the token
\* hands it to another address.
transferFromERC721(caller, from, to, tokenId) ==
    /\ IF /\ tokenId < tokenIdCounter
          /\ tokenOwner[tokenId + 1] = from
          /\ caller = from
          /\ to /= ZeroAddress
       THEN /\ tokenOwner' = [tokenOwner EXCEPT ![tokenId + 1] = to]
            /\ lastCall' = Call("transferFrom", caller, to, tokenId, "", "", FALSE)
            /\ UNCHANGED <<tokenIdCounter, tokenURIs, goalMinted, goalIds>>
       ELSE Reverted(Call("transferFrom", caller, to, tokenId, "", "", TRUE))
    /\ UNCHANGED <<chatVars, storeVars, trelloVars, serviceVars>>

\* transferFrom and both safeTransferFrom overloads revert unconditionally.
transferFrom(caller, from, to, tokenId) ==
    /\ Reverted(Call("transferFrom", caller, to, tokenId, "", "", TRUE))
    /\ UNCHANGED <<chatVars, storeVars, trelloVars, serviceVars>>

safeTransferFrom(caller, from, to, tokenId) ==
    /\ Reverted(Call("safeTransferFrom", caller, to, tokenId, "", "", TRUE))
    /\ UNCHANGED <<chatVars, storeVars, trelloVars, serviceVars>>

safeTransferFromData(caller, from, to, tokenId) ==
    /\ Reverted(Call("safeTransferFrom(bytes)", caller, to, tokenId, "", "", TRUE))
    /\ UNCHANGED <<chatVars, storeVars, trelloVars, serviceVars>>

\* The cloud function, once configured, calls mint(address,string) as its ABI
\* declares it; the contract has no function of that signature and no
\* fallback, so the call reverts and the function answers success: false.
mintProofOfCommitmentNFT(walletAddress, metadataURL) ==
    /\ Reverted(Call("mint(address,string)", ContractOwner, walletAddress,
                     tokenIdCounter, "", metadataURL, TRUE))
    /\ UNCHANGED <<chatVars, storeVars, trelloVars, serviceVars>>

NextMint ==
    \/ \E caller \in Callers, to \in Addresses, goalId \in GoalIdSet,
          tokenURI \in TokenURISet : mint(caller, to, goalId, tokenURI)
    \/ \E caller \in Callers, from \in Addresses, to \in Addresses,
          tokenId \in TokenIds : transferFrom(caller, from, to, tokenId)
    \/ \E caller \in Callers, from \in Addresses, to \in Addresses,
          tokenId \in TokenIds : safeTransferFrom(caller, from, to, tokenId)
    \/ \E caller \in Callers, from \in Addresses, to \in Addresses,
          tokenId \in TokenIds : safeTransferFromData(caller, from, to, tokenId)
    \/ \E walletAddress \in Addresses, metadataURL \in TokenURISet :
          mintProofOfCommitmentNFT(walletAddress, metadataURL)

\* The contract is exercised from one state of the page.
InitMint ==
    /\ Init
    /\ ~hasToken
    /\ transactions = <<>>
    /\ userProfileXP = NoProfile

SpecMint == InitMint /\ [][NextMint]_vars

\* ------------------------------------------------- GamificationService
\* A call runs from one await to the next in one step; the frames of a call
\* are kept on a stack (the last frame is the running one). The store answers
\* every request; updateDoc fails on a document that does not exist.
MaxCalls == 2          \* top-level calls made in one behaviour
MaxTotalXP == 600      \* the calls stop being stepped above this totalXP

LevelSize == 100
LevelUpXP == 50
DefaultType == "milestone"

calculateLevel(totalXP) == (totalXP \div LevelSize) + 1

Frame(fn, pc, type, dataType, amount) ==
    [fn |-> fn, pc |-> pc, type |-> type, dataType |-> dataType,
     amount |-> amount, id |-> 0, local |-> 0]

Db == [achievements |-> achievements, xpTransactions |-> xpTransactions,
       userStats |-> userStats, autoStats |-> autoStats, users |-> userDoc,
       goals |-> goals]

\* What one step of a frame does: the store after it, the frame after it and
\* how the frame goes on (next await, call, return, throw).
Out(db, kind, frame, callee) ==
    [db |-> db, kind |-> kind, frame |-> frame, callee |-> callee]

\* The id of the first achievement stored with the type asked for, 0 for null.
getUserAchievement(records, achievementType) ==
    LET found == {a \in 1..Len(records) : records[a].type = achievementType}
    IN  IF found = {} THEN 0 ELSE Min(found)

unlockAchievement(db, f) ==
    CASE f.pc = "getUserAchievement" ->
           LET existing == getUserAchievement(db.achievements, f.type)
           IN  IF existing # 0
               THEN Out(db, "return", [f EXCEPT !.id = existing], f)
               ELSE Out(db, "next", [f EXCEPT !.pc = "addDoc"], f)
      [] f.pc = "addDoc" ->
           LET record == [type |-> IF f.dataType = "" THEN DefaultType
                                   ELSE f.dataType,
                          requested |-> f.type,
                          xpReward |-> f.amount]
               db2 == [db EXCEPT !.achievements = Append(@, record)]
               f2 == [f EXCEPT !.id = Len(db.achievements) + 1,
                               !.pc = "updateStats"]
           IN  IF f.amount > 0
               THEN Out(db2, "call", f2, Frame("awardXP", "addDoc", "", "", f.amount))
               ELSE Out(db2, "next", f2, f)
      [] f.pc = "updateStats" ->
           IF db.userStats.exists
           THEN Out([db EXCEPT !.userStats.achievementsUnlocked = @ + 1],
                    "return", f, f)
           ELSE Out(db, "throw", f, f)

awardXP(db, f) ==
    CASE f.pc = "addDoc" ->
           Out([db EXCEPT !.xpTransactions = Append(@, f.amount)], "next",
               [f EXCEPT !.pc = "updateStats"], f)
      [] f.pc = "updateStats" ->
           IF db.userStats.exists
           THEN Out([db EXCEPT !.userStats.totalXP = @ + f.amount], "next",
                    [f EXCEPT !.pc = "getDoc"], f)
           ELSE Out(db, "throw", f, f)
      [] f.pc = "getDoc" ->
           Out(db, "next", [f EXCEPT !.pc = "updateDoc", !.local = db.users.xp], f)
      [] f.pc = "updateDoc" ->
           Out([db EXCEPT !.users.xp = f.local + f.amount], "call",
               [f EXCEPT !.pc = "return"],
               Frame("checkLevelUp", "getUserStats", "", "", 0))

checkLevelUp(db, f) ==
    CASE f.pc = "getUserStats" ->
           IF db.userStats.exists
           THEN LET newLevel == calculateLevel(db.userStats.totalXP)
                IN  IF newLevel > db.userStats.level
                    THEN Out(db, "next",
                             [f EXCEPT !.pc = "updateDoc", !.local = newLevel], f)
                    ELSE Out(db, "return", f, f)
           ELSE \* getUserStats finds nothing: createUserStats adds a document
                \* of level 1 and resets the profile XP
                Out([db EXCEPT !.autoStats = @ + 1, !.users.xp = 0], "return", f, f)
      [] f.pc = "updateDoc" ->
           IF db.userStats.exists
           THEN Out([db EXCEPT !.userStats.level = f.local], "call",
                    [f EXCEPT !.pc = "return"],
                    Frame("unlockAchievement", "getUserAchievement", "level_up",
                          "", f.local * LevelUpXP))
           ELSE Out(db, "throw", f, f)

\* updateUserXP reads the profile, then writes the XP it read plus the amount.
updateUserXP(db, f) ==
    CASE f.pc = "getDoc" ->
           Out(db, "next", [f EXCEPT !.pc = "updateDoc", !.local = db.users.xp], f)
      [] f.pc = "updateDoc" ->
           Out([db EXCEPT !.users.xp = f.local + f.amount], "return", f, f)

\* updateDoc(ref, fields): the fields given replace or extend those stored.
Merge(stored, fields) ==
    [k \in DOMAIN stored \cup DOMAIN fields |->
        IF k \in DOMAIN fields THEN fields[k] ELSE stored[k]]

GoalCompletionXP == 500
FirstGoalXP == 200
TenGoalsXP == 1000

\* markGoalCompleted: the grant, the counter, then the achievement of the
\* first and of the tenth goal.
markGoalCompleted(db, f) ==
    CASE f.pc = "awardXP" ->
           Out(db, "call", [f EXCEPT !.pc = "updateStats"],
               Frame("awardXP", "addDoc", "", "", f.amount))
      [] f.pc = "updateStats" ->
           IF db.userStats.exists
           THEN Out([db EXCEPT !.userStats.goalsCompleted = @ + 1], "next",
                    [f EXCEPT !.pc = "getUserStats"], f)
           ELSE Out(db, "throw", f, f)
      [] f.pc = "getUserStats" ->
           IF ~db.userStats.exists
           THEN Out([db EXCEPT !.autoStats = @ + 1, !.users.xp = 0], "return", f, f)
           ELSE IF db.userStats.goalsCompleted = 1
           THEN Out(db, "call", [f EXCEPT !.pc = "return"],
                    Frame("unlockAchievement", "getUserAchievement", "first_goal",
                          "", FirstGoalXP))
           ELSE IF db.userStats.goalsCompleted = 10
           THEN Out(db, "call", [f EXCEPT !.pc = "return"],
                    Frame("unlockAchievement", "getUserAchievement", "ten_goals",
                          "", TenGoalsXP))
           ELSE Out(db, "return", f, f)

\* completeGoal(userId, goalId): the goal is looked up by its field 'id',
\* then the document goals/<goalId> is updated, markGoalCompleted runs and
\* the counter of userStats/<uid> is incremented.
completeGoal(db, f) ==
    CASE f.pc = "getDocs" ->
           IF \E g \in 1..Len(db.goals) :
                 "id" \in DOMAIN db.goals[g] /\ db.goals[g].id = f.id
           THEN Out(db, "next", [f EXCEPT !.pc = "updateDoc"], f)
           ELSE Out(db, "throw", f, f)
      [] f.pc = "updateDoc" ->
           IF f.id \in 1..Len(db.goals)
           THEN Out([db EXCEPT !.goals[f.id] =
                        Merge(@, [status |-> "completed", progress |-> 100])],
                    "call", [f EXCEPT !.pc = "updateStats"],
                    [Frame("markGoalCompleted", "awardXP", "", "", f.amount)
                       EXCEPT !.id = f.id])
           ELSE Out(db, "throw", f, f)
      [] f.pc = "updateStats" ->
           IF db.userStats.exists
           THEN Out([db EXCEPT !.userStats.goalsCompleted = @ + 1], "return", f, f)
           ELSE Out(db, "throw", f, f)

Top(stack) == stack[Len(stack)]
Pop(stack) == SubSeq(stack, 1, Len(stack) - 1)

\* A frame that returned resumes its caller; a caller with nothing left to
\* await returns in the same step.
RECURSIVE Unwind(_)
Unwind(stack) ==
    IF stack # <<>> /\ Top(stack).pc = "return" THEN Unwind(Pop(stack)) ELSE stack

\* An exception leaves awardXP, unlockAchievement and markGoalCompleted
\* (they rethrow) and is caught by checkLevelUp, which returns
\* { leveledUp: false }, and by completeGoal, which returns { success: false }.
RECURSIVE Throw(_)
Throw(stack) ==
    IF stack = <<>> THEN [stack |-> <<>>, status |-> "threw"]
    ELSE IF Top(stack).fn = "checkLevelUp"
         THEN [stack |-> Unwind(Pop(stack)), status |-> "returned"]
         ELSE IF Top(stack).fn = "completeGoal"
         THEN [stack |-> Unwind(Pop(stack)), status |-> "failed"]
         ELSE Throw(Pop(stack))

StepOf(db, f) ==
    CASE f.fn = "unlockAchievement" -> unlockAchievement(db, f)
      [] f.fn = "awardXP" -> awardXP(db, f)
      [] f.fn = "checkLevelUp" -> checkLevelUp(db, f)
      [] f.fn = "updateUserXP" -> updateUserXP(db, f)
      [] f.fn = "markGoalCompleted" -> markGoalCompleted(db, f)
      [] f.fn = "completeGoal" -> completeGoal(db, f)

AfterStep(call, out) ==
    LET stack == call.stack
        rest == Pop(stack)
        next == CASE out.kind = "next" -> [stack |-> Append(rest, out.frame), status |-> "returned"]
                  [] out.kind = "call" -> [stack |-> Append(Append(rest, out.frame), out.callee), status |-> "returned"]
                  [] out.kind = "return" -> [stack |-> Unwind(rest), status |-> "returned"]
                  [] out.kind = "throw" -> Throw(stack)
    IN  [call EXCEPT !.stack = next.stack,
                     !.status = IF next.stack # <<>> THEN "running" ELSE next.status,
                     !.result = IF out.kind = "return" /\ rest = <<>>
                                THEN out.frame.id ELSE 0]

\* The achievements the callers of the repository unlock, and one whose
\* data carries its type.
UnlockInputs ==
    {[type |-> "bhag_creator", dataType |-> "", xpReward |-> 50],
     [type |-> "week_streak", dataType |-> "", xpReward |-> 100],
     [type |-> "special", dataType |-> "special", xpReward |-> 0]}

Running == {i \in 1..Len(calls) : calls[i].status = "running"}

\* A caller awaits unlockAchievement: the next call starts when the one
\* before it has settled.
callUnlockAchievement ==
    /\ Len(calls) < MaxCalls
    /\ Running = {}
    /\ \E input \in UnlockInputs :
         calls' = Append(calls,
                    [input |-> input, status |-> "running", result |-> 0,
                     created |-> Len(achievements), before |-> userDoc.xp, failures |-> 0,
                     stack |-> <<Frame("unlockAchievement", "getUserAchievement",
                                       input.type, input.dataType, input.xpReward)>>])
    /\ UNCHANGED <<achievements, xpTransactions, userStats, autoStats>>
    /\ UNCHANGED <<chatVars, contractVars, trelloVars, serviceVars>>

gamificationStep(i) ==
    /\ calls[i].status = "running"
    /\ LET out == StepOf(Db, Top(calls[i].stack))
       IN  /\ out.db.userStats.totalXP <= MaxTotalXP
           /\ achievements' = out.db.achievements
           /\ xpTransactions' = out.db.xpTransactions
           /\ userStats' = out.db.userStats
           /\ autoStats' = out.db.autoStats
           /\ userDoc' = out.db.users
           /\ goals' = out.db.goals
           /\ calls' = [calls EXCEPT ![i] = AfterStep(calls[i], out)]
    /\ UNCHANGED <<pageVars, contractVars, trelloVars, walletVars, nfts,
                   goalCalls, profileVars, completionVars>>

InitAch ==
    /\ InitSession /\ InitContract /\ InitTrello /\ InitServices
    /\ \E provisioned \in BOOLEAN : InitStore(provisioned)

NextAch ==
    \/ callUnlockAchievement
    \/ \E i \in 1..Len(calls) : gamificationStep(i)

SpecAch == InitAch /\ [][NextAch]_vars

\* ---------------------------------------------------- concurrent grants
\* Callers that do not wait for one another: a grant starts while others
\* are between two awaits. The amount is that of a progress update (api.ts),
\* which keeps totalXP below the first level-up.
MaxGrants == 2         \* grants started in one behaviour
ProgressXP == 25

GrantInputs ==
    {[type |-> fn, dataType |-> "", xpReward |-> amount] :
        fn \in {"awardXP", "updateUserXP"}, amount \in {ProgressXP}}

callGrant ==
    /\ Len(calls) < MaxGrants
    /\ \E input \in GrantInputs :
         calls' = Append(calls,
                    [input |-> input, status |-> "running", result |-> 0,
                     created |-> Len(achievements), before |-> userDoc.xp, failures |-> 0,
                     stack |-> <<Frame(input.type,
                                       IF input.type = "awardXP" THEN "addDoc"
                                       ELSE "getDoc",
                                       "", "", input.xpReward)>>])
    /\ UNCHANGED <<achievements, xpTransactions, userStats, autoStats>>
    /\ UNCHANGED <<chatVars, contractVars, trelloVars, serviceVars>>

NextGrants ==
    \/ callGrant
    \/ \E i \in 1..Len(calls) : gamificationStep(i)

SpecGrants == InitAch /\ [][NextGrants]_vars

\* ------------------------------------------------ TrelloService.makeRequest
\* A request reads the stored token, contacts the board service and handles
\* the answer; requests of one owner may overlap.  The service answers 401
\* to a revoked token.
MaxRequests == 3       \* makeRequest calls made in one behaviour
MaxIssued == 2         \* tokens issued by the authorization flow

NewRequest == [pc |-> "getToken", token |-> 0, contacted |-> FALSE, fetches |-> 0,
               error |-> "none"]

callMakeRequest ==
    /\ Len(requests) < MaxRequests
    /\ requests' = Append(requests, NewRequest)
    /\ UNCHANGED <<tokenValue, issued, revoked, expiredSince>>
    /\ UNCHANGED <<chatVars, contractVars, storeVars, serviceVars>>

\* getToken: null when there is no document; makeRequest then throws
\* 'No Trello token found' before any fetch.
getToken(i) ==
    /\ requests[i].pc = "getToken"
    /\ requests' = [requests EXCEPT ![i] =
                      IF hasToken
                      THEN [@ EXCEPT !.pc = "fetch", !.token = tokenValue]
                      ELSE [@ EXCEPT !.pc = "failed", !.error = "noToken"]]
    /\ UNCHANGED <<tokenValue, issued, revoked, expiredSince>>
    /\ UNCHANGED <<chatVars, contractVars, storeVars, serviceVars>>

\* fetch: the service is contacted; it answers 401 to a revoked token, and
\* otherwise with the result or with another error status.
fetch(i) ==
    /\ requests[i].pc = "fetch"
    /\ IF requests[i].token \in revoked
       THEN requests' = [requests EXCEPT ![i].contacted = TRUE,
                                         ![i].fetches = @ + 1,
                                         ![i].pc = "removeToken"]
       ELSE \E ok \in BOOLEAN :
              requests' = [requests EXCEPT
                             ![i].contacted = TRUE,
                             ![i].fetches = @ + 1,
                             ![i].pc = IF ok THEN "done" ELSE "failed",
                             ![i].error = IF ok THEN "none" ELSE "api"]
    /\ UNCHANGED <<tokenValue, issued, revoked, expiredSince>>
    /\ UNCHANGED <<chatVars, contractVars, storeVars, serviceVars>>

\* makeRequest on a 401 that leaves the stored token where it is.
keepToken(i) ==
    /\ requests[i].pc = "removeToken"
    /\ requests' = [requests EXCEPT ![i].pc = "failed", ![i].error = "expired"]
    /\ expiredSince' = TRUE
    /\ UNCHANGED <<tokenValue, issued, revoked>>
    /\ UNCHANGED <<chatVars, contractVars, storeVars, serviceVars>>

\* On a 401 removeToken deletes trello_tokens/<uid> and makeRequest throws
\* 'Trello authentication expired'; when the deletion fails removeToken
\* rethrows the store's error and the document stays.
removeToken(i) ==
    /\ requests[i].pc = "removeToken"
    /\ \E deleted \in BOOLEAN :
         IF deleted
         THEN /\ hasToken' = FALSE
              /\ expiredSince' = TRUE
              /\ requests' = [requests EXCEPT ![i].pc = "failed", ![i].error = "expired"]
         ELSE /\ requests' = [requests EXCEPT ![i].pc = "failed", ![i].error = "store"]
              /\ UNCHANGED <<hasToken, expiredSince>>
    /\ UNCHANGED <<tokenValue, issued, revoked>>
    /\ UNCHANGED <<sessionVars, userDoc, contractVars, storeVars, serviceVars>>

\* handleOAuthCallback: the token of the authorization flow is stored.
setToken ==
    /\ issued < MaxIssued
    /\ issued' = issued + 1
    /\ tokenValue' = issued + 1
    /\ hasToken' = TRUE
    /\ expiredSince' = FALSE
    /\ UNCHANGED <<revoked, requests>>
    /\ UNCHANGED <<sessionVars, userDoc, contractVars, storeVars, serviceVars>>

\* The board service stops accepting a token (it expired or was revoked).
expireToken ==
    /\ \E t \in (1..issued) \ revoked : revoked' = revoked \cup {t}
    /\ UNCHANGED <<tokenValue, issued, requests, expiredSince>>
    /\ UNCHANGED <<chatVars, contractVars, storeVars, serviceVars>>

NextTrello ==
    \/ callMakeRequest
    \/ \E i \in 1..Len(requests) : getToken(i)
    \/ \E i \in 1..Len(requests) : fetch(i)
    \/ \E i \in 1..Len(requests) : removeToken(i)
    \/ setToken
    \/ expireToken

SpecTrello == Init /\ [][NextTrello]_vars

\* ------------------------------------------------------ session start
\* The AuthProvider on a fresh page: the cookie (cache) and the stored
\* profile (authoritative) hold any two balances, no profile is loaded yet.
MaxStartXP == 10       \* balances at session start, in XP

InitStart ==
    /\ InitSession /\ InitContract /\ InitStore(FALSE) /\ InitTrello /\ InitServices
    /\ ~hasToken
    /\ transactions = <<>>
    /\ userProfileXP = NoProfile

\* onAuthStateChange with a signed-in user: the profile is loaded and
\* reconciled with the cookie.
onAuthStateChange ==
    /\ userProfileXP = NoProfile
    /\ userProfileXP' = ReloadedProfile(userDoc.xp, xpCookie)
    /\ xpCookie' = ReloadedCookie(userDoc.xp, xpCookie)
    /\ UNCHANGED <<currentStep, isAuthenticated, hasToken, currentQuestionIndex,
                   fourWOneHAnswers, timers, sent, reloads, sagas, boards,
                   sessionBoardId, transactions, certificates, userDoc, aiLog,
                   lastReport>>
    /\ UNCHANGED <<contractVars, storeVars, trelloVars, serviceVars>>

\* The balances the owner had when the page was left: any cache, any store.
leavePage ==
    /\ userProfileXP # NoProfile
    /\ userProfileXP' = NoProfile
    /\ \E c \in 0..MaxStartXP, st \in 0..MaxStartXP :
         /\ xpCookie' = c
         /\ userDoc' = [userDoc EXCEPT !.xp = st]
    /\ UNCHANGED <<currentStep, isAuthenticated, hasToken, currentQuestionIndex,
                   fourWOneHAnswers, timers, sent, reloads, sagas, boards,
                   sessionBoardId, transactions, certificates, aiLog,
                   lastReport>>
    /\ UNCHANGED <<contractVars, storeVars, trelloVars, serviceVars>>

NextStart ==
    \/ onAuthStateChange
    \/ leavePage

SpecStart == InitStart /\ [][NextStart]_vars

\* -------------------------------------------------------- wallet service
\* bip39 and ethers are modelled by what they do with a phrase: a phrase is
\* valid when its last word is the checksum of the words before it, the seed
\* is a number read off the words, and each derivation step mixes the index
\* into the key. The word list and the phrase length are cut down.
MaxWallets == 2        \* wallets generated in one behaviour
MaxRecoveries == 2     \* recoveries attempted in one behaviour

Words == {"abandon", "ability"}
WordIndex(w) == IF w = "abandon" THEN 0 ELSE 1
Phrases == Words \X Words \X Words

checksum(m) == IF WordIndex(m[1]) = WordIndex(m[2]) THEN "abandon" ELSE "ability"
validateMnemonic(m) == m \in Phrases /\ m[3] = checksum(m)

\* bip39.generateMnemonic() returns some valid phrase.
generateMnemonic == {m \in Phrases : validateMnemonic(m)}

\* Keys and addresses are cut down to 16 bits.
KeySpace == 2^16
mnemonicToSeed(m) == WordIndex(m[1]) * 4 + WordIndex(m[2]) * 2 + WordIndex(m[3]) + 1

\* One step of hierarchical derivation: the index, and whether it is a
\* hardened one, are mixed into the key.
childKey(node, index, hardened) ==
    [key |-> (node.key * 31 + index * 17 + (IF hardened THEN 11 ELSE 7)) % KeySpace,
     depth |-> node.depth + 1]

\* HDNodeWallet.deriveChild(index), index below 2^31: not hardened
deriveChild(node, index) == childKey(node, index, FALSE)

RECURSIVE derivePath(_, _)
derivePath(node, path) ==
    IF path = <<>> THEN node
    ELSE derivePath(childKey(node, Head(path).index, Head(path).hardened),
                    Tail(path))

\* ethers' default path m/44'/60'/0'/0/0
defaultPath ==
    <<[index |-> 44, hardened |-> TRUE], [index |-> 60, hardened |-> TRUE],
      [index |-> 0, hardened |-> TRUE], [index |-> 0, hardened |-> FALSE],
      [index |-> 0, hardened |-> FALSE]>>

\* HDNodeWallet.fromMnemonic(Mnemonic.fromPhrase(m)): the node at the
\* default path.
fromMnemonic(m) == derivePath([key |-> mnemonicToSeed(m), depth |-> 0], defaultPath)

addressOf(key) == (key * 13 + 5) % KeySpace

WalletInfo(wallet, mnemonic) ==
    [ok |-> TRUE, address |-> addressOf(wallet.key), mnemonic |-> mnemonic,
     privateKey |-> wallet.key]

\* new Error('Failed to ...'), thrown by the catch block
WalletError(mnemonic) ==
    [ok |-> FALSE, address |-> 0, mnemonic |-> mnemonic, privateKey |-> 0]

\* generateWallet() with the phrase bip39.generateMnemonic() returned
generateWallet(mnemonic) ==
    IF ~validateMnemonic(mnemonic) THEN WalletError(mnemonic)
    ELSE WalletInfo(deriveChild(fromMnemonic(mnemonic), 0), mnemonic)

\* A recovery that stops at the default path.
recoverWalletAtDefaultPath(mnemonic) ==
    IF ~validateMnemonic(mnemonic) THEN WalletError(mnemonic)
    ELSE WalletInfo(fromMnemonic(mnemonic), mnemonic)

recoverWalletFromMnemonic(mnemonic) ==
    IF ~validateMnemonic(mnemonic) THEN WalletError(mnemonic)
    ELSE WalletInfo(deriveChild(fromMnemonic(mnemonic), 0), mnemonic)

callGenerateWallet ==
    /\ Len(wallets) < MaxWallets
    /\ \E mnemonic \in generateMnemonic :
         wallets' = Append(wallets, generateWallet(mnemonic))
    /\ UNCHANGED recoveries
    /\ UNCHANGED <<chatVars, contractVars, storeVars, trelloVars, goalVars, profileVars, completionVars>>

\* The owner types a phrase: any phrase, valid or not.
callRecoverWallet ==
    /\ Len(recoveries) < MaxRecoveries
    /\ \E mnemonic \in Phrases :
         recoveries' = Append(recoveries, recoverWalletFromMnemonic(mnemonic))
    /\ UNCHANGED wallets
    /\ UNCHANGED <<chatVars, contractVars, storeVars, trelloVars, goalVars, profileVars, completionVars>>

NextWallet ==
    \/ callGenerateWallet
    \/ callRecoverWallet

SpecWallet == InitStart /\ [][NextWallet]_vars

\* ------------------------------------------------ grants and the level
\* Grants made one after the other, with a store whose requests can be
\* rejected: the rejection is what the catch blocks of awardXP,
\* unlockAchievement, getUserStats and checkLevelUp handle.
MaxFailures == 1       \* requests rejected in one behaviour
GoalCreatedXP == 50

RECURSIVE FailuresUpTo(_)
FailuresUpTo(n) == IF n = 0 THEN 0 ELSE calls[n].failures + FailuresUpTo(n - 1)
Failures == FailuresUpTo(Len(calls))

callAwardXP ==
    /\ Len(calls) < MaxCalls
    /\ Running = {}
    /\ \E amount \in {GoalCreatedXP, ProgressXP} :
         calls' = Append(calls,
                    [input |-> [type |-> "awardXP", dataType |-> "",
                                xpReward |-> amount],
                     status |-> "running", result |-> 0,
                     created |-> Len(achievements), before |-> userDoc.xp, failures |-> 0,
                     stack |-> <<Frame("awardXP", "addDoc", "", "", amount)>>])
    /\ UNCHANGED <<achievements, xpTransactions, userStats, autoStats>>
    /\ UNCHANGED <<chatVars, contractVars, trelloVars, serviceVars>>

\* The request the call is waiting for is rejected: nothing is written, the
\* error goes up the stack to the nearest catch that does not rethrow.
requestFails(i) ==
    /\ calls[i].status = "running"
    /\ Failures < MaxFailures
    /\ LET f == Top(calls[i].stack)
           after == AfterStep(calls[i], Out(Db, "throw", f, f))
       IN  calls' = [calls EXCEPT ![i] = [after EXCEPT !.failures = @ + 1]]
    /\ UNCHANGED <<achievements, xpTransactions, userStats, autoStats>>
    /\ UNCHANGED <<chatVars, contractVars, trelloVars, serviceVars>>

NextLevel ==
    \/ callAwardXP
    \/ \E i \in 1..Len(calls) : gamificationStep(i)
    \/ \E i \in 1..Len(calls) : requestFails(i)

\* The grants are made from one state of the page, with or without the
\* document userStats/<uid>.
InitLevel ==
    /\ InitAch
    /\ ~hasToken
    /\ transactions = <<>>
    /\ userProfileXP = NoProfile

SpecLevel == InitLevel /\ [][NextLevel]_vars

\* ------------------------------------------------ grants that are awaited
\* Grants made one after the other by a caller that awaits each of them; the
\* store answers every request, and a call that can take a step takes it
\* (the event loop runs every continuation whose request was answered).
NextAward ==
    \/ callAwardXP
    \/ \E i \in 1..Len(calls) : gamificationStep(i)

SpecAward ==
    /\ InitAch
    /\ [][NextAward]_vars
    /\ WF_vars(\E i \in 1..Len(calls) : gamificationStep(i))

\* -------------------------------------------------------- goal completion
\* The goals collection holds one active goal: as APIService.createGoal
\* stores it (no field 'id'), or written from outside with its document id
\* in the field 'id'.
StoredGoals ==
    {[status |-> "active", progress |-> 0],
     [status |-> "active", progress |-> 0, id |-> 1]}

InitComplete ==
    /\ InitSession /\ InitContract /\ InitTrello
    /\ InitWallet /\ InitProfiles /\ InitCompletions
    /\ nfts = <<>>
    /\ goalCalls = <<>>
    /\ \E goal \in StoredGoals : goals = <<goal>>
    /\ \E provisioned \in BOOLEAN : InitStore(provisioned)

\* useAPI().completeGoal(goalId) for a goal of the collection, by a caller
\* that awaits it.
callCompleteGoal ==
    /\ Len(calls) < MaxCalls
    /\ Running = {}
    /\ \E goalId \in 1..Len(goals) :
         calls' = Append(calls,
                    [input |-> [type |-> "completeGoal", dataType |-> "",
                                xpReward |-> GoalCompletionXP, goalId |-> goalId],
                     status |-> "running", result |-> 0,
                     created |-> Len(achievements), before |-> userDoc.xp,
                     failures |-> 0,
                     goalBefore |-> goals[goalId],
                     goalsCompleted |-> userStats.goalsCompleted,
                     stack |-> <<[Frame("completeGoal", "getDocs", "", "",
                                        GoalCompletionXP) EXCEPT !.id = goalId]>>])
    /\ UNCHANGED <<achievements, xpTransactions, userStats, autoStats>>
    /\ UNCHANGED <<chatVars, contractVars, trelloVars, serviceVars>>

NextComplete ==
    \/ callCompleteGoal
    \/ \E i \in 1..Len(calls) : gamificationStep(i)

SpecComplete == InitComplete /\ [][NextComplete]_vars

\* ---------------------------------------------------------- goal creation
\* createGoal runs from one await to the next in one step; one call is made
\* at a time. The collaborators (AI, Trello, Slack) answer or fail. The mint
\* function is deployed with or without each of its three settings.
MaxGoals == 1          \* createGoal calls made in one behaviour

Configs == [address : BOOLEAN, key : BOOLEAN, rpc : BOOLEAN]
Unconfigured(config) == ~config.address \/ ~config.key \/ ~config.rpc

WalletInputs == {"", "not-an-address", "0xA"}
GoalTitles == {"", "Run a marathon"}
isAddress(a) == a \in Addresses

NoMint == [called |-> FALSE, raised |-> FALSE, success |-> FALSE, error |-> "",
           contacted |-> FALSE, tokenId |-> 0]
MintOutcome(raised, error, contacted) ==
    [called |-> TRUE, raised |-> raised, success |-> FALSE, error |-> error,
     contacted |-> contacted, tokenId |-> 0]

\* The unconfigured branch raising instead of returning.
mintFunctionRaising(auth, data, config) ==
    IF ~auth THEN MintOutcome(TRUE, "unauthenticated", FALSE)
    ELSE IF data.goalTitle = "" \/ data.walletAddress = ""
    THEN MintOutcome(TRUE, "invalid-argument", FALSE)
    ELSE IF ~isAddress(data.walletAddress)
    THEN MintOutcome(TRUE, "invalid-argument", FALSE)
    ELSE IF Unconfigured(config)
    THEN MintOutcome(TRUE, "failed-precondition", FALSE)
    ELSE MintOutcome(FALSE, "reverted", TRUE)

\* The cloud function mintProofOfCommitmentNFT: what it answers to a
\* request. With all settings present it sends mint(address,string) to the
\* contract, which has no such function: the call reverts, the function
\* catches the error and answers success: false.
mintFunction(auth, data, config) ==
    IF ~auth THEN MintOutcome(TRUE, "unauthenticated", FALSE)
    ELSE IF data.goalTitle = "" \/ data.walletAddress = ""
    THEN MintOutcome(TRUE, "invalid-argument", FALSE)
    ELSE IF ~isAddress(data.walletAddress)
    THEN MintOutcome(TRUE, "invalid-argument", FALSE)
    ELSE IF Unconfigured(config)
    THEN MintOutcome(FALSE, "NFT contract not configured", FALSE)
    ELSE MintOutcome(FALSE, "reverted", TRUE)

\* mintGoalNFT: the answer of the function, or success: false with the
\* message of the error it raised.
mintGoalNFT(outcome) == [success |-> outcome.success, tokenId |-> outcome.tokenId,
                         error |-> outcome.error]

NoGoal == [id |-> 0, status |-> "", nft |-> 0, trello |-> FALSE]

GoalRunning == {i \in 1..Len(goalCalls) : goalCalls[i].pc \notin {"returned", "threw"}}

callCreateGoal ==
    /\ Len(goalCalls) < MaxGoals
    /\ GoalRunning = {}
    /\ Running = {}
    /\ \E auth \in BOOLEAN, walletAddress \in WalletInputs, config \in Configs :
         goalCalls' = Append(goalCalls,
                        [pc |-> "processGoalWithAI", auth |-> auth,
                         walletAddress |-> walletAddress, config |-> config,
                         goalTitle |-> "", goalId |-> 0, mint |-> NoMint,
                         nftData |-> 0, ledgerBefore |-> lastCall,
                         ledgerAfter |-> lastCall, nftsBefore |-> Len(nfts),
                         nftsAfter |-> Len(nfts), result |-> NoGoal])
    /\ UNCHANGED <<goals, nfts>>
    /\ UNCHANGED <<chatVars, contractVars, storeVars, trelloVars, walletVars, profileVars, completionVars>>

\* processGoalWithAI answers with a goal, or fails: createGoal rethrows.
processGoalWithAI(i) ==
    /\ goalCalls[i].pc = "processGoalWithAI"
    /\ \/ goalCalls' = [goalCalls EXCEPT ![i].pc = "threw"]
       \/ \E title \in GoalTitles :
            goalCalls' = [goalCalls EXCEPT ![i].pc = "addDoc", ![i].goalTitle = title]
    /\ UNCHANGED <<goals, nfts>>
    /\ UNCHANGED <<chatVars, contractVars, storeVars, trelloVars, walletVars, profileVars, completionVars>>

\* addDoc(collection(db, 'goals'), goalData): the goal is stored active.
addGoalDoc(i) ==
    /\ goalCalls[i].pc = "addDoc"
    /\ goals' = Append(goals, [status |-> "active", trello |-> FALSE, nft |-> 0])
    /\ goalCalls' = [goalCalls EXCEPT ![i].pc = "createTrelloBoard",
                                      ![i].goalId = Len(goals) + 1]
    /\ UNCHANGED nfts
    /\ UNCHANGED <<chatVars, contractVars, storeVars, trelloVars, walletVars, profileVars, completionVars>>

\* createTrelloBoard, then sendSlackNotification: a failure of either is
\* logged and the call goes on.
createTrelloBoard(i) ==
    /\ goalCalls[i].pc = "createTrelloBoard"
    /\ \E ok \in BOOLEAN :
         goals' = [goals EXCEPT ![goalCalls[i].goalId].trello = ok]
    /\ goalCalls' = [goalCalls EXCEPT ![i].pc = "sendSlackNotification"]
    /\ UNCHANGED nfts
    /\ UNCHANGED <<chatVars, contractVars, storeVars, trelloVars, walletVars, profileVars, completionVars>>

sendSlackNotification(i) ==
    /\ goalCalls[i].pc = "sendSlackNotification"
    /\ goalCalls' = [goalCalls EXCEPT ![i].pc = "mintGoalNFT"]
    /\ UNCHANGED <<goals, nfts>>
    /\ UNCHANGED <<chatVars, contractVars, storeVars, trelloVars, walletVars, profileVars, completionVars>>

\* The mint step: skipped without a wallet address; otherwise the function
\* is called, and a successful answer is written to the goal.
mintStep(i) ==
    /\ goalCalls[i].pc = "mintGoalNFT"
    /\ LET call == goalCalls[i]
           data == [goalId |-> call.goalId, goalTitle |-> call.goalTitle,
                    walletAddress |-> call.walletAddress]
           outcome == IF call.walletAddress = "" THEN NoMint
                      ELSE mintFunction(call.auth, data, call.config)
           nftResult == mintGoalNFT(outcome)
           minted == outcome.called /\ nftResult.success /\ nftResult.tokenId # 0
       IN  /\ IF outcome.contacted
              THEN Reverted(Call("mint(address,string)", ContractOwner,
                                 call.walletAddress, tokenIdCounter, "", "uri1", TRUE))
              ELSE UNCHANGED contractVars
           /\ goals' = IF minted
                       THEN [goals EXCEPT ![call.goalId].nft = nftResult.tokenId]
                       ELSE goals
           /\ nfts' = IF outcome.success THEN Append(nfts, call.goalId) ELSE nfts
           /\ goalCalls' = [goalCalls EXCEPT
                              ![i].pc = "unlockAchievement",
                              ![i].mint = outcome,
                              ![i].ledgerBefore = lastCall,
                              ![i].ledgerAfter = lastCall',
                              ![i].nftsBefore = Len(nfts),
                              ![i].nftsAfter = Len(nfts'),
                              ![i].nftData = IF minted THEN nftResult.tokenId ELSE 0]
    /\ UNCHANGED <<chatVars, storeVars, trelloVars, walletVars, profileVars, completionVars>>

\* gamificationService.unlockAchievement(userId, 'bhag_creator', ...) is
\* awaited inside a try block.
unlockBhagCreator(i) ==
    /\ goalCalls[i].pc = "unlockAchievement"
    /\ LET input == [type |-> "bhag_creator", dataType |-> "", xpReward |-> 50]
       IN  calls' = Append(calls,
                      [input |-> input, status |-> "running", result |-> 0,
                       created |-> Len(achievements), before |-> userDoc.xp, failures |-> 0,
                       stack |-> <<Frame("unlockAchievement", "getUserAchievement",
                                         input.type, input.dataType, input.xpReward)>>])
    /\ goalCalls' = [goalCalls EXCEPT ![i].pc = "return"]
    /\ UNCHANGED <<achievements, xpTransactions, userStats, autoStats>>
    /\ UNCHANGED <<goals, nfts>>
    /\ UNCHANGED <<chatVars, contractVars, trelloVars, walletVars, profileVars, completionVars>>

\* return { id: goalId, ...goalData, nft: nftData }
returnGoal(i) ==
    /\ goalCalls[i].pc = "return"
    /\ Running = {}
    /\ goalCalls' = [goalCalls EXCEPT
                       ![i].pc = "returned",
                       ![i].result = [id |-> goalCalls[i].goalId, status |-> "active",
                                      nft |-> goalCalls[i].nftData, trello |-> FALSE]]
    /\ UNCHANGED <<goals, nfts>>
    /\ UNCHANGED <<chatVars, contractVars, storeVars, trelloVars, walletVars, profileVars, completionVars>>

NextGoal ==
    \/ callCreateGoal
    \/ \E i \in 1..Len(goalCalls) : processGoalWithAI(i)
    \/ \E i \in 1..Len(goalCalls) : addGoalDoc(i)
    \/ \E i \in 1..Len(goalCalls) : createTrelloBoard(i)
    \/ \E i \in 1..Len(goalCalls) : sendSlackNotification(i)
    \/ \E i \in 1..Len(goalCalls) : mintStep(i)
    \/ \E i \in 1..Len(goalCalls) : unlockBhagCreator(i)
    \/ \E i \in 1..Len(goalCalls) : returnGoal(i)
    \/ \E i \in 1..Len(calls) : gamificationStep(i)

\* Goals are created from one state of the page, with or without the
\* document userStats/<uid>.
InitGoalCreation ==
    /\ InitAch
    /\ ~hasToken
    /\ transactions = <<>>
    /\ userProfileXP = NoProfile

SpecGoal == InitGoalCreation /\ [][NextGoal]_vars

\* ----------------------------------------------------------- user profiles
\* Sign-up and first Google sign-in create the profile of a uid; the wallet
\* is generated inside createUserProfile.
MaxProfileCalls == 2   \* sign-up / sign-in calls made in one behaviour

Names == {"Ada", "User"}

\* A profile that stores the whole WalletInfo.
createUserProfileStoringWallet(name, email, walletInfo) ==
    [doc |-> [exists |-> TRUE, name |-> name, email |-> email, xp |-> 0,
              streak |-> 0, badges |-> <<>>,
              wallet |-> walletInfo,
              createdAt |-> "serverTimestamp", lastLoginAt |-> "serverTimestamp"],
     result |-> [mnemonic |-> walletInfo.mnemonic, address |-> walletInfo.address]]

\* createUserProfile with the wallet generateWallet() returned: the document
\* written by setDoc and the value returned.
createUserProfile(name, email, walletInfo) ==
    [doc |-> [exists |-> TRUE, name |-> name, email |-> email, xp |-> 0,
              streak |-> 0, badges |-> <<>>,
              wallet |-> [publicAddress |-> walletInfo.address,
                          createdAt |-> "serverTimestamp"],
              createdAt |-> "serverTimestamp", lastLoginAt |-> "serverTimestamp"],
     result |-> [mnemonic |-> walletInfo.mnemonic, address |-> walletInfo.address]]

NoResult == [mnemonic |-> <<>>, address |-> 0]

\* signUpWithEmail: a new account, its profile, and the user is returned.
signUpWithEmail(uid, name) ==
    /\ Len(profileCalls) < MaxProfileCalls
    /\ ~users[uid].exists
    /\ \E mnemonic \in generateMnemonic :
         LET walletInfo == generateWallet(mnemonic)
             created == createUserProfile(name, uid, walletInfo)
         IN  /\ users' = [users EXCEPT ![uid] = created.doc]
             /\ profileCalls' = Append(profileCalls,
                                  [fn |-> "signUpWithEmail", uid |-> uid,
                                   created |-> TRUE, walletInfo |-> walletInfo,
                                   result |-> created.result])
    /\ UNCHANGED <<chatVars, contractVars, storeVars, trelloVars, walletVars, goalVars, completionVars>>

\* signInWithGoogle: the profile is created when the uid has none, otherwise
\* only lastLoginAt is updated.
signInWithGoogle(uid, name) ==
    /\ Len(profileCalls) < MaxProfileCalls
    /\ IF ~users[uid].exists
       THEN \E mnemonic \in generateMnemonic :
              LET walletInfo == generateWallet(mnemonic)
                  created == createUserProfile(name, uid, walletInfo)
              IN  /\ users' = [users EXCEPT ![uid] = created.doc]
                  /\ profileCalls' = Append(profileCalls,
                                       [fn |-> "signInWithGoogle", uid |-> uid,
                                        created |-> TRUE, walletInfo |-> walletInfo,
                                        result |-> created.result])
       ELSE /\ users' = [users EXCEPT ![uid].lastLoginAt = "serverTimestamp"]
            /\ profileCalls' = Append(profileCalls,
                                 [fn |-> "signInWithGoogle", uid |-> uid,
                                  created |-> FALSE,
                                  walletInfo |-> WalletError(<<>>),
                                  result |-> NoResult])
    /\ UNCHANGED <<chatVars, contractVars, storeVars, trelloVars, walletVars, goalVars, completionVars>>

NextProfile ==
    \/ \E uid \in Uids, name \in Names : signUpWithEmail(uid, name)
    \/ \E uid \in Uids, name \in Names : signInWithGoogle(uid, name)

SpecProfile == InitStart /\ [][NextProfile]_vars

\* ================================================================ claims

\* C1: for one session the saga (processComplete4W1H) is started at most
\* once, whatever the interleaving of user messages and delayed handlers;
\* two messages sent in quick succession as the sixth answer start one saga.
C1_AtMostOneSagaPerSession == Len(sagas) <= 1

\* C2: the slot answers are recorded in the order what, why, when, where,
\* who, how, and the answer set handed to plan generation by
\* processComplete4W1H holds all six answers, 'how' included.
AnswersInOrder(a) ==
    \A i, j \in 1..6 :
        (i < j /\ a[Slots[j]] # 0) => (a[Slots[i]] # 0 /\ a[Slots[i]] < a[Slots[j]])

C2_SagaStartsWithAllSix ==
    /\ AnswersInOrder(fourWOneHAnswers)
    /\ \A i \in 1..Len(sagas) : \A s \in SlotSet : sagas[i].answers[s] # 0

\* C3: after any sequence of reward grants the owner's balance, cached
\* (cookie) and displayed (profile), equals the sum of the signed amounts of
\* the ledger entries.
C3_BalanceIsLedgerSum ==
    /\ xpCookie = SumAmounts(transactions)
    /\ userProfileXP # NoProfile => userProfileXP = SumAmounts(transactions)

\* Run i passes from the attachment to the certificate in this step.
RewardStepOf(i) ==
    /\ i <= Len(sagas) /\ i <= Len(sagas')
    /\ sagas[i].pc = "attach"
    /\ sagas'[i].pc = "cert"

\* C9: in the creation reward step the balance is raised optimistically and
\* then persisted; when persistence fails the optimistic update is rolled
\* back, so the displayed and the cached balance equal the balance before
\* the step, and the saga continues.
C9_RollbackRestoresBalance ==
    [][\A i \in 1..2 :
         (RewardStepOf(i) /\ ~sagas'[i].persisted)
            => /\ userProfileXP' = userProfileXP
               /\ xpCookie' = xpCookie]_vars

\* The steps of the saga after board provisioning.
LaterSteps == {"image", "attach", "xp", "cert", "finalize"}

FailedAtBoard(s) == s.pc = "failed" /\ "board" \in s.ran /\ "image" \notin s.ran

\* C10: when board provisioning (createGoalBoard) fails the saga is aborted:
\* no artifact, reward, certificate or finalize step runs, the session does
\* not become active, and the user still receives the generated plan as text.
C10_BoardFailureReturnsPlanText ==
    \A i \in 1..Len(sagas) :
        FailedAtBoard(sagas[i])
            => /\ sagas[i].ran \cap LaterSteps = {}
               /\ currentStep # "active"
               /\ aiLog["planText"] > 0

\* The cards of list l of a board, and the creation-reward entries of a goal.
CardsIn(board, l) == {c \in 1..Len(board.cards) : board.cards[c].idList = l}

CreationEntries(goalId) ==
    {k \in 1..Len(transactions) :
        transactions[k].reason = "BHAG created" /\ transactions[k].goalId = goalId}

AllCreationEntries ==
    {k \in 1..Len(transactions) : transactions[k].reason = "BHAG created"}

\* One card per week of the plan, in the plan's order, on a board of four lists.
HasWeeklyCards(board, plan) ==
    /\ board.lists = 4
    /\ Len(board.cards) >= Len(plan)
    /\ \A k \in 1..Len(plan) : board.cards[k].week = plan[k]
    /\ \A c \in 1..Len(board.cards) : c > Len(plan) => board.cards[c].week = 0

ArtifactFailedAndDone(s) == s.pc = "done" /\ ~s.imageOk

ReportHandled(kind, k) ==
    /\ timers # <<>>
    /\ Head(timers).step = "active"
    /\ Head(timers).boardId # 0
    /\ Head(timers).text = [kind |-> kind, week |-> k]
    /\ lastReport'.n = Head(timers).msg
    /\ lastReport'.ok

\* The card named exactly 'Week <k>' of a board, 0 when there is none.
CardNamed(board, k) ==
    IF \E c \in 1..Len(board.cards) : board.cards[c].week = k
    THEN CHOOSE c \in 1..Len(board.cards) : board.cards[c].week = k
    ELSE 0

CardIsIn(board, k, l) ==
    CardNamed(board, k) # 0 /\ board.cards[CardNamed(board, k)].idList = l

C6_CompletionRewardedOnce ==
    [][\A k \in ReportWeeks :
         LET b == Head(timers).boardId IN
         /\ (ReportHandled("done", k) /\ CardIsIn(boards[b], k, Doing))
               => /\ CardIsIn(boards'[b], k, Done)
                  /\ Len(transactions') = Len(transactions) + 1
                  /\ transactions'[Len(transactions')].amount = WeekXP
                  /\ xpCookie' = xpCookie + WeekXP
         /\ (ReportHandled("done", k) /\ CardIsIn(boards[b], k, Done))
               => /\ transactions' = transactions
                  /\ xpCookie' = xpCookie
                  /\ userDoc' = userDoc]_vars

\* C5: whatever mint calls are made, at most one credential exists per
\* (goalId, address): a mint by the contract owner to an address that can
\* receive tokens, for a pair not yet minted, succeeds and creates the next
\* token for that pair; every later mint for the same goalId and address
\* reverts, creates no token and leaves the token counter, the token
\* ownership, the token URIs, goalMinted and goalIds unchanged.
TokensOf(goalId, to) ==
    {t \in 1..Len(tokenOwner) : goalIds[t] = goalId /\ tokenOwner[t] = to}

C5_MintOncePerGoalAndAddress ==
    /\ [](/\ tokenIdCounter = Len(tokenOwner)
          /\ Len(goalIds) = Len(tokenOwner)
          /\ \A goalId \in GoalIdSet, to \in Addresses :
               /\ Cardinality(TokensOf(goalId, to)) <= 1
               /\ <<goalId, to>> \in goalMinted <=> TokensOf(goalId, to) /= {})
    /\ [][/\ (/\ lastCall'.fn = "mint"
              /\ <<lastCall'.goalId, lastCall'.to>> \in goalMinted)
             => /\ lastCall'.reverted
                /\ UNCHANGED <<tokenIdCounter, tokenOwner, tokenURIs,
                               goalMinted, goalIds>>
          /\ (/\ lastCall'.fn = "mint"
              /\ lastCall'.caller = ContractOwner
              /\ safeMintAccepts(lastCall'.to)
              /\ <<lastCall'.goalId, lastCall'.to>> \notin goalMinted)
             => /\ ~lastCall'.reverted
                /\ tokenIdCounter' = tokenIdCounter + 1
                /\ tokenOwner' = Append(tokenOwner, lastCall'.to)
                /\ tokenURIs' = Append(tokenURIs, lastCall'.uri)
                /\ goalIds' = Append(goalIds, lastCall'.goalId)
                /\ goalMinted' = goalMinted \cup {<<lastCall'.goalId, lastCall'.to>>}
         ]_vars

\* A repeated mint for a pair that holds a token has been made and reverted.
C5_Witness ==
    /\ lastCall.fn = "mint"
    /\ lastCall.caller = ContractOwner
    /\ lastCall.reverted
    /\ <<lastCall.goalId, lastCall.to>> \in goalMinted
    /\ Cardinality(TokensOf(lastCall.goalId, lastCall.to)) = 1

\* The achievement records created for the type asked for.
RecordsFor(achievementType) ==
    {a \in 1..Len(achievements) : achievements[a].requested = achievementType}

\* C4: calling unlockAchievement twice in sequence for the same owner and
\* the same achievement type leaves exactly one achievement record for that
\* type: the second call returns the id of the record the first one created
\* and creates nothing.
C4_SecondUnlockReturnsExisting ==
    \A i, j \in 1..Len(calls) :
        (/\ i < j
         /\ calls[i].input.type = calls[j].input.type
         /\ calls[i].status # "running")
        => /\ Cardinality(RecordsFor(calls[i].input.type)) = 1
           /\ Len(achievements) = calls[j].created
           /\ calls[j].status # "running"
              => /\ calls[j].status = "returned"
                 /\ calls[j].result \in RecordsFor(calls[i].input.type)

\* C11: when attaching the vision artifact (addImageToBHAG) fails, the step
\* is skipped and the saga continues: the creation reward, the certificate
\* and the finalize step still run and the session becomes active.
C11_AttachFailureIsSkipped ==
    \A i \in 1..Len(sagas) :
        "attach" \in sagas[i].ran
        => /\ sagas[i].pc \in {"cert", "done"}
           /\ {"xp", "finalize"} \subseteq sagas[i].ran
           /\ currentStep = "active"

\* The edges of the conversation: welcome to connect when the board adapter
\* is unlinked, welcome to slot-filling when it is linked, connect to
\* slot-filling once linked, slot-filling to materializing on the sixth
\* answer (a saga starts), materializing to active when a saga finalizes.
SagaFinalizes ==
    \E i \in 1..Len(sagas) :
        /\ i <= Len(sagas')
        /\ "finalize" \notin sagas[i].ran
        /\ "finalize" \in sagas'[i].ran

AllowedEdge ==
    \/ currentStep = "welcome" /\ currentStep' = "trello-connect" /\ ~hasToken
    \/ currentStep = "welcome" /\ currentStep' = "4w1h" /\ hasToken
    \/ currentStep = "trello-connect" /\ currentStep' = "4w1h" /\ hasToken
    \/ /\ currentStep = "4w1h"
       /\ currentStep' = "goal-creation"
       /\ Len(sagas') = Len(sagas) + 1
    \/ currentStep = "goal-creation" /\ currentStep' = "active" /\ SagaFinalizes

\* C12: the state of a session changes only along the edges above; no other
\* transition and no backward transition is taken.  (A page reload mounts a
\* new session and is not a transition of the old one.)
C12_OnlyForwardEdges ==
    [][(currentStep' # currentStep /\ reloads' = reloads) => AllowedEdge]_vars

\* C13: once the session is active no message and no event starts the saga
\* again for that session, the session stays active, and every message sent
\* from then on is handled by the progress interpreter
\* (handleActiveConversation).
C13_ActiveNeverRestartsSaga ==
    [][(currentStep = "active" /\ reloads' = reloads)
       => /\ Len(sagas') = Len(sagas)
          /\ currentStep' = "active"
          /\ (/\ timers # <<>>
              /\ timers' = Tail(timers)
              /\ Head(timers).step = "active")
             => lastReport'.n = Head(timers).msg]_vars

TransferEntryPoints == {"transferFrom", "safeTransferFrom", "safeTransferFrom(bytes)"}

\* C14: after a credential is minted its owner never changes: every call of
\* transferFrom or of either safeTransferFrom reverts, whoever calls it and
\* whatever its arguments, and the only change of ownership that succeeds is
\* a mint, which gives the next token to its first owner.
C14_OwnerNeverChanges ==
    [][/\ Len(tokenOwner') >= Len(tokenOwner)
       /\ \A t \in 1..Len(tokenOwner) : tokenOwner'[t] = tokenOwner[t]
       /\ tokenOwner' # tokenOwner
          => /\ lastCall'.fn = "mint"
             /\ ~lastCall'.reverted
             /\ tokenOwner' = Append(tokenOwner, lastCall'.to)
       /\ lastCall'.fn \in TransferEntryPoints
          => /\ lastCall'.reverted
             /\ UNCHANGED <<tokenIdCounter, tokenOwner, tokenURIs, goalMinted,
                            goalIds>>]_vars

\* The owner of a minted token has called transferFrom for it.
C14_Witness ==
    /\ lastCall.fn = "transferFrom"
    /\ lastCall.tokenId < tokenIdCounter
    /\ tokenOwner[lastCall.tokenId + 1] = lastCall.caller
    /\ lastCall.to \notin {ZeroAddress, lastCall.caller}

C16_ReconciliationAgrees ==
    [][(userProfileXP = NoProfile /\ userProfileXP' # NoProfile)
       => LET c == getXPCookie(xpCookie)
              st == userDoc.xp
              inUse == IF c > st THEN c ELSE st
          IN  /\ userProfileXP' = inUse
              /\ xpCookie' = inUse
              /\ userDoc'.xp = inUse]_vars

\* C17: two reward grants for the same owner that run concurrently both take
\* effect in every interleaving: once both have returned, each awardXP grant
\* has its ledger entry and the stored balance has grown by the sum of the
\* amounts.
GrantedSum(n) ==
    LET RECURSIVE sum(_)
        sum(k) == IF k = 0 THEN 0 ELSE calls[k].input.xpReward + sum(k - 1)
    IN  sum(n)

C17_NoLostUpdate ==
    (/\ Len(calls) >= 2
     /\ \A i \in 1..Len(calls) : calls[i].status = "returned")
    => /\ Len(xpTransactions)
            = Cardinality({i \in 1..Len(calls) : calls[i].input.type = "awardXP"})
       /\ userDoc.xp = calls[1].before + GrantedSum(Len(calls))

\* C18: wallet derivation is deterministic: every recovery of a valid phrase
\* returns the same address, and the address recovered from the phrase that
\* generateWallet produced is the address generateWallet returned.
C18_DerivationIsDeterministic ==
    /\ \A i, j \in 1..Len(recoveries) :
         recoveries[i].mnemonic = recoveries[j].mnemonic
         => recoveries[i] = recoveries[j]
    /\ \A i \in 1..Len(recoveries) :
         validateMnemonic(recoveries[i].mnemonic) => recoveries[i].ok
    /\ \A w \in 1..Len(wallets), i \in 1..Len(recoveries) :
         recoveries[i].mnemonic = wallets[w].mnemonic
         => /\ wallets[w].ok /\ recoveries[i].ok
            /\ recoveries[i].address = wallets[w].address

C18_Witness ==
    \E w \in 1..Len(wallets), i, j \in 1..Len(recoveries) :
        /\ i < j
        /\ recoveries[i].mnemonic = wallets[w].mnemonic
        /\ recoveries[j].mnemonic = wallets[w].mnemonic
        /\ recoveries[i].ok

\* C19: when the credential ledger is unconfigured (contract address, owner
\* key or endpoint absent), the mint operation answers 'not minted' without
\* raising an error and without any ledger or database write, and createGoal
\* still returns an active goal with no credential reference. (A request the
\* function rejects as unauthenticated or invalid is rejected before the
\* settings are looked at; createGoal receives 'not minted' for it as well.)
PastMint(call) == call.pc \in {"unlockAchievement", "return", "returned"}

C19_UnconfiguredLedgerDegrades ==
    \A i \in 1..Len(goalCalls) :
        LET call == goalCalls[i]
            valid == call.auth /\ call.goalTitle # "" /\ isAddress(call.walletAddress)
        IN  (Unconfigured(call.config) /\ PastMint(call))
            => /\ ~call.mint.success
               /\ call.mint.called /\ valid
                  => /\ ~call.mint.raised
                     /\ call.mint.error = "NFT contract not configured"
               /\ ~call.mint.contacted
               /\ call.ledgerAfter = call.ledgerBefore
               /\ call.nftsAfter = call.nftsBefore
               /\ goals[call.goalId].nft = 0
               /\ goals[call.goalId].status = "active"
               /\ call.pc = "returned"
                  => call.result.status = "active" /\ call.result.nft = 0

C19_Witness ==
    \E i \in 1..Len(goalCalls) :
        /\ Unconfigured(goalCalls[i].config)
        /\ goalCalls[i].pc = "returned"
        /\ goalCalls[i].mint.called
        /\ goalCalls[i].mint.error = "NFT contract not configured"

ProfileFields ==
    {"exists", "name", "email", "xp", "streak", "badges", "wallet",
     "createdAt", "lastLoginAt"}

C21_PhraseIsNeverPersisted ==
    /\ \A u \in Uids :
         users[u].exists
         => /\ DOMAIN users[u] = ProfileFields
            /\ DOMAIN users[u].wallet = {"publicAddress", "createdAt"}
    /\ \A i \in 1..Len(profileCalls) :
         LET call == profileCalls[i]
         IN  IF call.created
             THEN /\ call.result.mnemonic = call.walletInfo.mnemonic
                  /\ call.result.address = call.walletInfo.address
                  /\ DOMAIN call.result = {"mnemonic", "address"}
             ELSE call.result = NoResult

C21_Witness ==
    \E i \in 1..Len(profileCalls) :
        /\ profileCalls[i].created
        /\ validateMnemonic(profileCalls[i].result.mnemonic)
        /\ users[profileCalls[i].uid].wallet.publicAddress
             = profileCalls[i].walletInfo.address

\* C22: a board-adapter request that fails with a transient (non-auth) error
\* is retried once, and the failure is reported to the caller only if the
\* retry fails too: a request reported as failed with an API error has
\* contacted the service twice.
C22_TransientErrorRetriedOnce ==
    \A i \in 1..Len(requests) :
        (requests[i].pc = "failed" /\ requests[i].error = "api")
        => requests[i].fetches = 2

\* C23: the saga's steps run strictly in the order plan generation, board
\* provisioning, vision artifact generation, vision attachment, creation
\* reward grant, certificate issuance, finalize, each after the one before
\* it; in particular the session is not marked active before certificate
\* issuance has been attempted.
SagaOrder == <<"plan", "board", "image", "attach", "xp", "cert", "finalize">>

C23_SagaStepsInOrder ==
    \A i \in 1..Len(sagas) :
        \A k \in 1..Len(SagaOrder) :
            SagaOrder[k] \in sagas[i].ran
            => \A j \in 1..(k - 1) : SagaOrder[j] \in sagas[i].ran

\* C24: the saga ends with exactly one consolidated summary message, and
\* that message reports every step according to its actual outcome: a step
\* that failed or was skipped (reward grant, certificate issuance, artifact)
\* is never listed as succeeded.
Succeeded(saga) ==
    {"plan", "board", "finalize"}
        \cup (IF saga.imageOk THEN {"image"} ELSE {})
        \cup (IF saga.persisted THEN {"xp"} ELSE {})
        \cup (IF saga.certOk THEN {"cert"} ELSE {})

C24_SummaryReportsOutcomes ==
    /\ aiLog["summary"] = Cardinality({i \in 1..Len(sagas) : sagas[i].pc = "done"})
    /\ \A i \in 1..Len(sagas) :
         sagas[i].pc = "done" => sagas[i].summary \subseteq Succeeded(sagas[i])

\* C25 as stated: when a progress report names a week for which the board
\* has no matching card, the interpreter moves no card, grants no reward and
\* raises no error; the user gets only a neutral acknowledgment.
NoCardIncludes(board, k) ==
    \A c \in 1..Len(board.cards) :
        ~(board.cards[c].week > 0 /\ NameIncludes(board.cards[c].week, k))

NoMatchReport(kind, k) ==
    /\ ReportHandled(kind, k)
    /\ NoCardIncludes(boards[Head(timers).boardId], k)

NothingMutated ==
    /\ boards' = boards
    /\ transactions' = transactions
    /\ xpCookie' = xpCookie
    /\ userProfileXP' = userProfileXP
    /\ userDoc' = userDoc
    /\ aiLog'["error"] = aiLog["error"]

CreatedBy(i) ==
    (IF i < Len(calls) THEN calls[i + 1].created ELSE Len(achievements))
        - calls[i].created

AwardXPSettles == []<>(Running = {})

\* C27: for a goal created through the saga, the first
\* awardCompletionCertificate call made once the board is at the 80%
\* threshold (its requests answered) issues one certificate and returns
\* true, and every call after a certificate was issued issues none and
\* returns false.
C27_CompletionCertificateOnce ==
    \A i \in 1..Len(completionCalls) :
        LET call == completionCalls[i]
            earlier == \E j \in 1..(i - 1) : completionCalls[j].issued > 0
        IN  (call.atThreshold /\ call.answered) =>
                IF earlier
                THEN ~call.returned /\ call.issued = 0
                ELSE call.returned /\ call.issued = 1

\* The cards of a board that a step moved, with the list each came from
\* and the list it went to.
CardMoves ==
    UNION {{[from |-> boards[b].cards[c].idList,
             to |-> boards'[b].cards[c].idList] :
               c \in {k \in 1..Len(boards[b].cards) :
                        /\ k <= Len(boards'[b].cards)
                        /\ boards[b].cards[k].idList
                             # boards'[b].cards[k].idList}} :
           b \in {k \in 1..Len(boards) : k <= Len(boards')}}

\* C28: progress reports move a card only forward: a card on Done is never
\* moved off it, a card is moved to Doing only out of To Do, and a card is
\* moved to Done only out of Doing.
C28_CardsMoveOnlyForward ==
    [][handleActiveConversation =>
         \A m \in CardMoves :
            /\ m.from # Done
            /\ (m.to = Doing => m.from = ToDo)
            /\ (m.to = Done => m.from = Doing)]_vars

\* The first part alone: no step takes a card off the Done list.
DoneCardsStayDone ==
    [][\A m \in CardMoves : m.from # Done]_vars

\* C29: a completeGoal call for an active goal that has settled left the
\* owner's goalsCompleted one above what it was and the goal completed with
\* progress 100.
C29_CompleteGoalCountsOnce ==
    Len(calls) > 0 =>
        LET call == calls[Len(calls)] IN
        (/\ call.input.type = "completeGoal"
         /\ call.status # "running"
         /\ call.goalBefore.status = "active")
        => /\ userStats.goalsCompleted = call.goalsCompleted + 1
           /\ goals[call.input.goalId].status = "completed"
           /\ goals[call.input.goalId].progress = 100

\* The runs of the saga that were aborted while the session was
\* materializing.
Aborted == {i \in 1..Len(sagas) : sagas[i].pc = "failed"}

\* No message sent after a run was aborted starts a run.
NoSagaFromLaterMessage ==
    \A i \in Aborted : \A j \in 1..Len(sagas) : sagas[j].msg <= sagas[i].failedAt

\* After a run was aborted the session does not leave 'goal-creation'.
AbortedStaysMaterializing ==
    (Aborted # {} /\ currentStep = "goal-creation" /\ reloads' = reloads)
        => currentStep' = "goal-creation"

\* C30: once the saga was aborted by a failure the session stays in
\* 'goal-creation': no message sent later starts a saga and the session
\* never becomes active.
C30_AbortedSessionStaysMaterializing ==
    [][AbortedStaysMaterializing /\ NoSagaFromLaterMessage']_vars

====
